---- MODULE Spec2Model ----
(***************************************************************************)
(* A model of the z3mu relay simulator.                                    *)
(*                                                                         *)
(*  - Handle, CBuilder and Subcircuit follow src/src/circuit/handle.rs and *)
(*    src/src/circuit/subcircuit.rs.                                       *)
(*  - Circuit (several sub-circuits joined by their public node names)     *)
(*    follows src/src/circuit.rs.                                          *)
(*                                                                         *)
(* A Rust Vec is a sequence; NodeId and SwitchId are 0-based as in the     *)
(* code, so element i of a Vec v is v[i + 1].  An Option is a sequence of  *)
(* length at most one.  A String is a sequence of one-character strings.   *)
(* A HashMap is a function on the set of its keys.                         *)
(***************************************************************************)
EXTENDS Integers, Sequences, FiniteSets, TLC

(***************************************************************************)
(* Bounds of the model.                                                    *)
(***************************************************************************)
\* most nodes a builder allocates
MaxNodes == 3
\* most switches a builder records
MaxSwitches == 2
\* most coils a builder records
MaxCoils == 2
\* most nodes driven in one step besides G
MaxSources == 1

(***************************************************************************)
(* Handle (circuit/handle.rs)                                              *)
(***************************************************************************)
None == << >>
Some(x) == << x >>

\* Handle::new
Handle(name, index, sup) == [name |-> name, index |-> index, sup |-> sup]

UpperChars == << "A", "B", "C", "D", "E", "F", "G", "H", "I", "J", "K", "L", "M",
                 "N", "O", "P", "Q", "R", "S", "T", "U", "V", "W", "X", "Y", "Z" >>
LowerChars == << "a", "b", "c", "d", "e", "f", "g", "h", "i", "j", "k", "l", "m",
                 "n", "o", "p", "q", "r", "s", "t", "u", "v", "w", "x", "y", "z" >>

\* char::to_lowercase on the characters the model uses
ToLowerChar(c) ==
    IF \E i \in 1..26 : UpperChars[i] = c
    THEN LowerChars[CHOOSE i \in 1..26 : UpperChars[i] = c]
    ELSE c

\* String::to_lowercase
ToLowercase(s) == [i \in 1..Len(s) |-> ToLowerChar(s[i])]

\* the handles of the model
HG == Handle(<< "G" >>, None, None)
HAa == Handle(<< "A", "a" >>, Some(0), None)
HAa1 == Handle(<< "A", "a" >>, Some(0), Some(1))
Haa == Handle(<< "a", "a" >>, Some(0), None)
Hxy == Handle(<< "x", "y" >>, Some(-10), None)
HS5 == Handle(<< "S" >>, Some(5), None)
\* Aa_0 in other capitals, with another index; aa_0 with another index, with a sup
HAA == Handle(<< "A", "A" >>, Some(0), None)
HAa_1 == Handle(<< "A", "a" >>, Some(1), None)
Haa_1 == Handle(<< "a", "a" >>, Some(1), None)
Haa1 == Handle(<< "a", "a" >>, Some(0), Some(1))

(***************************************************************************)
(* Vec and HashMap helpers                                                 *)
(***************************************************************************)
EmptyMap == [x \in {} |-> x]

\* HashMap::insert of key k (not yet present, or overwritten)
MapPut(m, k, v) == [x \in DOMAIN m \cup {k} |-> IF x = k THEN v ELSE m[x]]

\* the elements of a Vec
Elems(v) == {v[i] : i \in 1..Len(v)}

\* vec![v; n]
VecOf(v, n) == [i \in 1..n |-> v]

\* the number of positions of Vec v that hold x
Count(v, x) == Cardinality({i \in 1..Len(v) : v[i] = x})

(***************************************************************************)
(* CBuilder (circuit/subcircuit.rs)                                        *)
(*                                                                         *)
(* A builder operation is an operator from the builder to a record         *)
(*   [cb |-> the builder after the call, ret |-> the value returned,       *)
(*    panic |-> whether the call panicked]                                 *)
(***************************************************************************)
Wire(n) == [kind |-> "Wire", node |-> n]
Named(h) == [kind |-> "Named", name |-> h]
New == [kind |-> "New"]

\* CBuilder::new
CBuilderNew ==
    [num_nodes |-> 0, node_aliases |-> EmptyMap, switches |-> << >>,
     coils |-> << >>, public_nodes |-> EmptyMap]

Ok(cb, ret) == [cb |-> cb, ret |-> ret, panic |-> FALSE]
Panic(cb) == [cb |-> cb, ret |-> 0, panic |-> TRUE]

PUBLIC_LIST ==
    { << "G" >>, << "S" >>, << "A", "a" >>, << "A", "b" >>, << "A", "e" >>,
      << "B", "a" >>, << "B", "b" >>, << "B", "e" >> }

\* CBuilder::is_public_by_default
is_public_by_default(handle) == handle.name \in PUBLIC_LIST

\* coil_to_switch_name with a slip: the sup is carried over
coil_to_switch_name_keeps_sup(coil_handle) ==
    Handle(ToLowercase(coil_handle.name), coil_handle.index, coil_handle.sup)

\* CBuilder::coil_to_switch_name
coil_to_switch_name(coil_handle) ==
    Handle(ToLowercase(coil_handle.name), coil_handle.index, None)

\* CBuilder::expose_node
expose_node(cb, handle) ==
    IF handle \notin DOMAIN cb.node_aliases
    THEN Panic(cb)
    ELSE LET node_id == cb.node_aliases[handle]
             old == IF node_id \in DOMAIN cb.public_nodes
                    THEN cb.public_nodes[node_id] ELSE << >>
         IN Ok([cb EXCEPT !.public_nodes =
                    MapPut(cb.public_nodes, node_id, Append(old, handle))], 0)

\* name_node with a slip: the assert is missing, a bound name is bound again
name_node_rebinds(cb, n, name) ==
    LET cb1 == [cb EXCEPT !.node_aliases = MapPut(cb.node_aliases, name, n)]
    IN IF is_public_by_default(name) THEN expose_node(cb1, name) ELSE Ok(cb1, 0)

\* CBuilder::name_node
name_node(cb, n, name) ==
    IF name \in DOMAIN cb.node_aliases
    THEN Panic([cb EXCEPT !.node_aliases = MapPut(cb.node_aliases, name, n)])
    ELSE LET cb1 == [cb EXCEPT !.node_aliases = MapPut(cb.node_aliases, name, n)]
         IN IF is_public_by_default(name) THEN expose_node(cb1, name) ELSE Ok(cb1, 0)

\* add_node with a slip: the count is returned after it was incremented
add_node_counts_first(cb) == Ok([cb EXCEPT !.num_nodes = cb.num_nodes + 1], cb.num_nodes + 1)

\* CBuilder::add_node
add_node(cb) == Ok([cb EXCEPT !.num_nodes = cb.num_nodes + 1], cb.num_nodes)

\* named_node with a slip: the name is not looked up, every use makes a node
named_node_fresh(cb, name) ==
    LET a == add_node(cb)
    IN Ok([a.cb EXCEPT !.node_aliases = MapPut(a.cb.node_aliases, name, a.ret)], a.ret)

\* CBuilder::named_node
named_node(cb, name) ==
    IF name \in DOMAIN cb.node_aliases
    THEN Ok(cb, cb.node_aliases[name])
    ELSE LET a == add_node(cb)
             r == name_node(a.cb, a.ret, name)
         IN [r EXCEPT !.ret = a.ret]

\* CBuilder::node
node(cb, spec) ==
    CASE spec.kind = "Wire" -> Ok(cb, spec.node)
      [] spec.kind = "Named" -> named_node(cb, spec.name)
      [] spec.kind = "New" -> add_node(cb)

\* add_coil with a slip: the terminal is always a new node, pos is not looked at
add_coil_new_terminal(cb, handle, pos) ==
    LET p == add_node(cb)
        r == name_node(p.cb, p.ret, handle)
    IN IF r.panic
       THEN Panic(r.cb)
       ELSE Ok([r.cb EXCEPT !.coils = Append(r.cb.coils, [name |-> handle, pos |-> p.ret])],
               p.ret)

\* CBuilder::add_coil
add_coil(cb, handle, pos) ==
    LET p == node(cb, pos)
        r == name_node(p.cb, p.ret, handle)
    IN IF p.panic \/ r.panic
       THEN Panic(r.cb)
       ELSE Ok([r.cb EXCEPT !.coils = Append(r.cb.coils, [name |-> handle, pos |-> p.ret])],
               p.ret)

\* CBuilder::add_switch
add_switch(cb, name, loc) ==
    LET pole == node(cb, loc[1])
        no == node(pole.cb, loc[2])
        nc == node(no.cb, loc[3])
    IN IF pole.panic \/ no.panic \/ nc.panic
       THEN Panic(nc.cb)
       ELSE Ok([nc.cb EXCEPT !.switches =
                    Append(nc.cb.switches,
                           [name |-> name, pole |-> pole.ret, no |-> no.ret, nc |-> nc.ret])],
               << pole.ret, no.ret, nc.ret >>)

(***************************************************************************)
(* Subcircuit (circuit/subcircuit.rs)                                      *)
(***************************************************************************)
\* connect with a slip: the edge is entered at a only
connect_one_way(connections, a, b) == [connections EXCEPT ![a + 1] = Append(@, b)]

\* Subcircuit::connect
connect(connections, a, b) ==
    LET c1 == [connections EXCEPT ![a + 1] = Append(@, b)]
    IN [c1 EXCEPT ![b + 1] = Append(@, a)]

\* impl From<BuilderSwitch> for Switch
SwitchFrom(bs) == [pole |-> bs.pole, no |-> bs.no, nc |-> bs.nc]

\* FinalizeConnections with a slip: each pole is connected to its no
RECURSIVE FinalizeConnections_no(_, _, _)
FinalizeConnections_no(switches, i, connections) ==
    IF i > Len(switches) THEN connections
    ELSE FinalizeConnections_no(switches, i + 1,
                                connect(connections, switches[i].pole, switches[i].no))

\* finalize: the loop over the switches, connecting each pole to its nc
RECURSIVE FinalizeConnections(_, _, _)
FinalizeConnections(switches, i, connections) ==
    IF i > Len(switches) THEN connections
    ELSE FinalizeConnections(switches, i + 1,
                             connect(connections, switches[i].pole, switches[i].nc))

\* SwitchesByName with a slip: a name that is not filed gets every switch
SwitchesByName_or_all(switches, name) ==
    LET ids == [i \in 1..Len(switches) |-> i - 1]
    IN IF \E i \in 1..Len(switches) : switches[i].name = name
       THEN SelectSeq(ids, LAMBDA id : switches[id + 1].name = name)
       ELSE ids

\* finalize: switches_by_name.get(name), the ids of the switches called name, in order
SwitchesByName(switches, name) ==
    LET ids == [i \in 1..Len(switches) |-> i - 1]
    IN SelectSeq(ids, LAMBDA id : switches[id + 1].name = name)

\* finalize: the loop over the coils, pushing each coil on its node's list
RECURSIVE FinalizeCoils(_, _, _, _)
FinalizeCoils(cb_coils, switches, i, coils) ==
    IF i > Len(cb_coils) THEN coils
    ELSE LET coil == cb_coils[i]
             sw == SwitchesByName(switches, coil_to_switch_name(coil.name))
         IN FinalizeCoils(cb_coils, switches, i + 1,
                          [coils EXCEPT ![coil.pos + 1] = Append(@, [switches |-> sw])])

\* finalize: name_to_node, every exposed name with its node
FinalizeNames(public_nodes) ==
    LET names == UNION {{public_nodes[n][k] : k \in 1..Len(public_nodes[n])} :
                        n \in DOMAIN public_nodes}
    IN [h \in names |->
           CHOOSE n \in DOMAIN public_nodes :
               \E k \in 1..Len(public_nodes[n]) : public_nodes[n][k] = h]

\* finalize panics when a Vec is indexed beyond its length
FinalizePanics(cb) ==
    \/ \E i \in 1..Len(cb.switches) :
           \/ cb.switches[i].pole >= cb.num_nodes
           \/ cb.switches[i].nc >= cb.num_nodes
    \/ \E i \in 1..Len(cb.coils) : cb.coils[i].pos >= cb.num_nodes

\* CBuilder::finalize
finalize(cb) ==
    [coils |-> FinalizeCoils(cb.coils, cb.switches, 1, VecOf(<< >>, cb.num_nodes)),
     switches |-> [i \in 1..Len(cb.switches) |-> SwitchFrom(cb.switches[i])],
     name_to_node |-> FinalizeNames(cb.public_nodes),
     public_nodes |-> cb.public_nodes,
     switch_positions |-> VecOf(FALSE, Len(cb.switches)),
     next_switch_positions |-> VecOf(FALSE, Len(cb.switches)),
     connections |-> FinalizeConnections(cb.switches, 1, VecOf(<< >>, cb.num_nodes)),
     node_states |-> VecOf(FALSE, cb.num_nodes)]

\* Subcircuit::default
SubcircuitDefault == finalize(CBuilderNew)

\* end_step_connections: the loop over the switches
RECURSIVE EndStepLoop(_, _, _, _)
EndStepLoop(switches, positions, i, connections) ==
    IF i > Len(switches) \/ i > Len(positions) THEN connections
    ELSE LET branch == IF positions[i] THEN switches[i].no ELSE switches[i].nc
         IN EndStepLoop(switches, positions, i + 1,
                        connect(connections, switches[i].pole, branch))

\* Subcircuit::end_step_connections
end_step_connections(sc) ==
    [sc EXCEPT !.connections =
        EndStepLoop(sc.switches, sc.switch_positions, 1, VecOf(<< >>, Len(sc.node_states)))]

\* start_step with a slip: the node states of the last step are kept
start_step_keeps_states(sc) == sc

\* Subcircuit::start_step
start_step(sc) == [sc EXCEPT !.node_states = VecOf(FALSE, Len(sc.node_states))]

\* MarkCoils with a slip: only the first switch of each coil is marked
MarkCoils_first_switch(sc, n, next) ==
    [i \in 1..Len(next) |->
        \/ next[i]
        \/ \E c \in 1..Len(sc.coils[n + 1]) :
               /\ sc.coils[n + 1][c].switches # << >>
               /\ sc.coils[n + 1][c].switches[1] = i - 1]

\* update: the switches of the coils at a node are marked in next_switch_positions
MarkCoils(sc, n, next) ==
    [i \in 1..Len(next) |->
        \/ next[i]
        \/ \E c \in 1..Len(sc.coils[n + 1]) :
               \E k \in 1..Len(sc.coils[n + 1][c].switches) :
                   sc.coils[n + 1][c].switches[k] = i - 1]

\* update: the while loop; the worklist is a stack, popped at its end
RECURSIVE UpdateLoop(_, _, _, _, _)
UpdateLoop(sc, worklist, visited, next, ret) ==
    IF worklist = << >>
    THEN [visited |-> visited, next |-> next, ret |-> ret]
    ELSE LET n == worklist[Len(worklist)]
             rest == SubSeq(worklist, 1, Len(worklist) - 1)
         IN IF visited[n + 1]
            THEN UpdateLoop(sc, rest, visited, next, ret)
            ELSE LET ret2 == IF n \in DOMAIN sc.public_nodes
                             THEN ret \o sc.public_nodes[n] ELSE ret
                     visited2 == [visited EXCEPT ![n + 1] = TRUE]
                     pushed == SelectSeq(sc.connections[n + 1],
                                         LAMBDA other : ~visited2[other + 1])
                 IN UpdateLoop(sc, rest \o pushed, visited2, MarkCoils(sc, n, next), ret2)

\* update with a slip: the coils' switches are thrown at once, not at the commit
update_throws_at_once(sc, node_name) ==
    LET r == UpdateLoop(sc, << sc.name_to_node[node_name] >>, sc.node_states,
                        sc.next_switch_positions, << >>)
    IN [sc |-> end_step_connections(
                   [sc EXCEPT !.node_states = r.visited, !.next_switch_positions = r.next,
                              !.switch_positions = r.next]),
        ret |-> r.ret]

\* Subcircuit::update: [sc |-> the sub-circuit after the call, ret |-> the names returned]
update(sc, node_name) ==
    LET r == UpdateLoop(sc, << sc.name_to_node[node_name] >>, sc.node_states,
                        sc.next_switch_positions, << >>)
    IN [sc |-> [sc EXCEPT !.node_states = r.visited, !.next_switch_positions = r.next],
        ret |-> r.ret]

\* end_step with a slip: next_switch_positions is not cleared, so relays latch
end_step_latching(sc) ==
    end_step_connections([sc EXCEPT !.switch_positions = sc.next_switch_positions])

\* Subcircuit::end_step
end_step(sc) ==
    end_step_connections(
        [sc EXCEPT !.switch_positions = sc.next_switch_positions,
                   !.next_switch_positions = VecOf(FALSE, Len(sc.next_switch_positions))])

\* end_step_connections panics when connect indexes beyond the node table
EndStepPanics(sc) ==
    \E i \in 1..Len(sc.switches) :
        /\ sc.next_switch_positions[i]
        /\ sc.switches[i].no >= Len(sc.node_states)

\* tests: Subcircuit::is_high
is_high(s, h) == s.node_states[s.name_to_node[h] + 1]

\* tests: Subcircuit::is_active
is_active(s, switch) == s.switch_positions[switch + 1]

(***************************************************************************)
(* Circuit (circuit.rs): sub-circuits that meet at public nodes            *)
(*                                                                         *)
(* circuit.rs carries its own CBuilder, whose operations differ from those *)
(* of circuit/subcircuit.rs in is_public_by_default only; they are the     *)
(* operators circuit_... below.  finalize and update are the same code in  *)
(* both files.                                                             *)
(***************************************************************************)
\* the handles of basic_circuit and one_relay; From<&str> finds no '_' or '^'
Hshared == Handle(<< "s", "h", "a", "r", "e", "d" >>, None, None)
HAa0 == Handle(<< "A", "a", "0" >>, None, None)
HBa0 == Handle(<< "B", "a", "0" >>, None, None)
Hdummy == Handle(<< "d", "u", "m", "m", "y" >>, None, None)
HAb0 == Handle(<< "A", "b", "0" >>, None, None)
Hab0 == Handle(<< "a", "b", "0" >>, None, None)
Hno == Handle(<< "n", "o" >>, None, None)
Hnc == Handle(<< "n", "c" >>, None, None)

\* CBuilder::is_public_by_default of circuit.rs
circuit_is_public_by_default(handle) ==
    /\ \A i \in 1..Len(handle.name) : handle.name[i] \in Elems(UpperChars) \cup {"_"}
    /\ handle.index = None
    /\ handle.sup = None

\* CBuilder::name_node of circuit.rs
circuit_name_node(cb, n, name) ==
    IF name \in DOMAIN cb.node_aliases
    THEN Panic([cb EXCEPT !.node_aliases = MapPut(cb.node_aliases, name, n)])
    ELSE LET cb1 == [cb EXCEPT !.node_aliases = MapPut(cb.node_aliases, name, n)]
         IN IF circuit_is_public_by_default(name) THEN expose_node(cb1, name) ELSE Ok(cb1, 0)

\* CBuilder::named_node of circuit.rs
circuit_named_node(cb, name) ==
    IF name \in DOMAIN cb.node_aliases
    THEN Ok(cb, cb.node_aliases[name])
    ELSE LET a == add_node(cb)
             r == circuit_name_node(a.cb, a.ret, name)
         IN [r EXCEPT !.ret = a.ret]

\* CBuilder::node of circuit.rs
circuit_node(cb, spec) ==
    CASE spec.kind = "Wire" -> Ok(cb, spec.node)
      [] spec.kind = "New" -> add_node(cb)
      [] spec.kind = "Named" -> circuit_named_node(cb, spec.name)

\* CBuilder::add_coil of circuit.rs
circuit_add_coil(cb, handle, pos) ==
    LET p == circuit_node(cb, pos)
        r == circuit_name_node(p.cb, p.ret, handle)
    IN IF p.panic \/ r.panic
       THEN Panic(r.cb)
       ELSE Ok([r.cb EXCEPT !.coils = Append(r.cb.coils, [name |-> handle, pos |-> p.ret])],
               p.ret)

\* CBuilder::add_switch of circuit.rs
circuit_add_switch(cb, name, loc) ==
    LET pole == circuit_node(cb, loc[1])
        no == circuit_node(pole.cb, loc[2])
        nc == circuit_node(no.cb, loc[3])
    IN IF pole.panic \/ no.panic \/ nc.panic
       THEN Panic(nc.cb)
       ELSE Ok([nc.cb EXCEPT !.switches =
                    Append(nc.cb.switches,
                           [name |-> name, pole |-> pole.ret, no |-> no.ret, nc |-> nc.ret])],
               << pole.ret, no.ret, nc.ret >>)

\* the calls a build closure makes on the builder it is handed
NodeCall(spec) == [op |-> "node", spec |-> spec]
CoilCall(handle, pos) == [op |-> "add_coil", handle |-> handle, pos |-> pos]
SwitchCall(name, loc) == [op |-> "add_switch", name |-> name, loc |-> loc]

\* one call of a closure
Call(cb, c) ==
    CASE c.op = "node" -> circuit_node(cb, c.spec)
      [] c.op = "add_coil" -> circuit_add_coil(cb, c.handle, c.pos)
      [] c.op = "add_switch" -> circuit_add_switch(cb, c.name, c.loc)

\* build(&mut cb): the calls in order, up to the first that panics
RECURSIVE RunBuild(_, _, _)
RunBuild(cb, calls, i) ==
    IF i > Len(calls)
    THEN Ok(cb, 0)
    ELSE LET r == Call(cb, calls[i])
         IN IF r.panic THEN Panic(r.cb) ELSE RunBuild(r.cb, calls, i + 1)

\* the closures of tests::basic_circuit ("A" and "B") and the relay of tests::one_relay,
\* each with the Interface it returns
BuildA ==
    [calls |-> << NodeCall(Named(HAa0)), NodeCall(Named(Hshared)) >>,
     interface |-> << Hshared >>]
BuildB ==
    [calls |-> << NodeCall(Named(HBa0)),
                  SwitchCall(Hdummy, << Named(Hshared), Named(HG), Named(HG) >>) >>,
     interface |-> << Hshared >>]
BuildRelay ==
    [calls |-> << CoilCall(HAb0, Named(HG)),
                  SwitchCall(Hab0, << Named(HG), Named(Hno), Named(Hnc) >>) >>,
     interface |-> << Hno, Hnc >>]

\* build_subcircuit: for node in interface.nodes { cb.expose_node(node) }
RECURSIVE ExposeInterface(_, _, _)
ExposeInterface(cb, nodes, i) ==
    IF i > Len(nodes)
    THEN Ok(cb, 0)
    ELSE LET r == expose_node(cb, nodes[i])
         IN IF r.panic THEN Panic(r.cb) ELSE ExposeInterface(r.cb, nodes, i + 1)

\* PublicNode::default
PublicNodeDefault == [state |-> FALSE, subcircuits |-> << >>]

\* Circuit::new
CircuitNew == [subcircuits |-> EmptyMap, nodes |-> EmptyMap, set_nodes |-> << >>]

\* the names in subcircuit.public_nodes, one entry per time a name was exposed
RECURSIVE PublicNames(_, _)
PublicNames(public_nodes, ids) ==
    IF ids = {}
    THEN << >>
    ELSE LET n == CHOOSE x \in ids : \A y \in ids : x <= y
         IN public_nodes[n] \o PublicNames(public_nodes, ids \ {n})

\* add_subcircuit: the loop over the names; every name gets the sub-circuit pushed, so
\* the order in which the HashMap is walked does not show in the result
RECURSIVE AddNames(_, _, _, _)
AddNames(nodes, names, i, name) ==
    IF i > Len(names)
    THEN nodes
    ELSE LET node_name == names[i]
             old == IF node_name \in DOMAIN nodes THEN nodes[node_name] ELSE PublicNodeDefault
         IN AddNames(MapPut(nodes, node_name,
                            [old EXCEPT !.subcircuits = Append(@, name)]),
                     names, i + 1, name)

\* Circuit::add_subcircuit
add_subcircuit(c, name, subcircuit) ==
    [c EXCEPT !.nodes = AddNames(c.nodes,
                                 PublicNames(subcircuit.public_nodes,
                                             DOMAIN subcircuit.public_nodes),
                                 1, name),
              !.subcircuits = MapPut(c.subcircuits, name, subcircuit)]

\* Circuit::build_subcircuit: [c |-> the circuit after the call, panic |-> it panicked]
build_subcircuit(c, name, build) ==
    LET b == RunBuild(CBuilderNew, build.calls, 1)
        e == ExposeInterface(b.cb, build.interface, 1)
    IN IF b.panic \/ e.panic \/ FinalizePanics(e.cb)
       THEN [c |-> c, panic |-> TRUE]
       ELSE [c |-> add_subcircuit(c, name, finalize(e.cb)), panic |-> FALSE]

\* set with a slip: the handle is pushed without the look-up
set_unchecked(c, handle) ==
    [c |-> [c EXCEPT !.set_nodes = Append(@, handle)],
     log |-> IF handle \in DOMAIN c.nodes THEN "none" ELSE "warn"]

\* Circuit::set: [c |-> the circuit after the call, log |-> the level logged]
set(c, handle) ==
    IF handle \in DOMAIN c.nodes
    THEN [c |-> [c EXCEPT !.set_nodes = Append(@, handle)], log |-> "none"]
    ELSE [c |-> c, log |-> "warn"]

\* Circuit::inspect: it takes &self and returns (); log is the level it logs at and
\* value the state it prints
inspect(c, handle) ==
    IF handle \in DOMAIN c.nodes
    THEN [log |-> "info", value |-> c.nodes[handle].state, panic |-> FALSE]
    ELSE [log |-> "warn", value |-> FALSE, panic |-> FALSE]

\* UpdateAll with a slip: only the first sub-circuit of the list is updated
UpdateAll_first_only(subcircuits, scids, i, node_name, stack) ==
    IF i > Len(scids)
    THEN [subcircuits |-> subcircuits, stack |-> stack, panic |-> FALSE]
    ELSE LET scid == scids[i]
         IN IF node_name \notin DOMAIN subcircuits[scid].name_to_node
            THEN [subcircuits |-> subcircuits, stack |-> stack, panic |-> TRUE]
            ELSE LET r == update(subcircuits[scid], node_name)
                 IN [subcircuits |-> [subcircuits EXCEPT ![scid] = r.sc],
                     stack |-> stack \o r.ret, panic |-> FALSE]

\* step: for scid in &public_node.subcircuits { subcircuit.update(&node_name) ... };
\* update indexes name_to_node by the name and panics when the name is not there
RECURSIVE UpdateAll(_, _, _, _, _)
UpdateAll(subcircuits, scids, i, node_name, stack) ==
    IF i > Len(scids)
    THEN [subcircuits |-> subcircuits, stack |-> stack, panic |-> FALSE]
    ELSE LET scid == scids[i]
         IN IF node_name \notin DOMAIN subcircuits[scid].name_to_node
            THEN [subcircuits |-> subcircuits, stack |-> stack, panic |-> TRUE]
            ELSE LET r == update(subcircuits[scid], node_name)
                 IN UpdateAll([subcircuits EXCEPT ![scid] = r.sc], scids, i + 1,
                              node_name, stack \o r.ret)

\* step: the while loop; set_nodes is a stack, popped at its end
RECURSIVE StepLoop(_, _, _, _)
StepLoop(subcircuits, nodes, stack, visited) ==
    IF stack = << >>
    THEN [subcircuits |-> subcircuits, nodes |-> nodes, set_nodes |-> stack,
          panic |-> FALSE]
    ELSE LET node_name == stack[Len(stack)]
             rest == SubSeq(stack, 1, Len(stack) - 1)
         IN IF node_name \in visited
            THEN StepLoop(subcircuits, nodes, rest, visited)
            ELSE IF node_name \in DOMAIN nodes
                 THEN LET nodes2 == [nodes EXCEPT ![node_name].state = TRUE]
                          u == UpdateAll(subcircuits, nodes[node_name].subcircuits, 1,
                                         node_name, rest)
                      IN IF u.panic
                         THEN [subcircuits |-> u.subcircuits, nodes |-> nodes2,
                               set_nodes |-> u.stack, panic |-> TRUE]
                         ELSE StepLoop(u.subcircuits, nodes2, u.stack,
                                       visited \cup {node_name})
                 ELSE StepLoop(subcircuits, nodes, rest, visited \cup {node_name})

\* step with a slip: the loop walks a copy of set_nodes and leaves the list as it was
step_keeps_sources(c) ==
    LET reset == [h \in DOMAIN c.nodes |-> [c.nodes[h] EXCEPT !.state = FALSE]]
        r == StepLoop(c.subcircuits, reset, Append(c.set_nodes, HG), {})
    IN [c |-> [subcircuits |-> r.subcircuits, nodes |-> r.nodes, set_nodes |-> c.set_nodes],
        panic |-> r.panic]

\* step with a slip: a popped name the Circuit does not know is unwrapped, not skipped
step_unwraps_unknown(c) ==
    LET reset == [h \in DOMAIN c.nodes |-> [c.nodes[h] EXCEPT !.state = FALSE]]
        r == StepLoop(c.subcircuits, reset, Append(c.set_nodes, HG), {})
        unknown == Elems(Append(c.set_nodes, HG)) \ DOMAIN c.nodes
    IN IF unknown # {}
       THEN [c |-> [subcircuits |-> c.subcircuits, nodes |-> reset,
                    set_nodes |-> c.set_nodes],
             panic |-> TRUE]
       ELSE [c |-> [subcircuits |-> r.subcircuits, nodes |-> r.nodes,
                    set_nodes |-> r.set_nodes],
             panic |-> r.panic]

\* Circuit::step: [c |-> the circuit after the call, panic |-> it panicked]
step(c) ==
    LET reset == [h \in DOMAIN c.nodes |-> [c.nodes[h] EXCEPT !.state = FALSE]]
        r == StepLoop(c.subcircuits, reset, Append(c.set_nodes, HG), {})
    IN [c |-> [subcircuits |-> r.subcircuits, nodes |-> r.nodes, set_nodes |-> r.set_nodes],
        panic |-> r.panic]

\* Circuit::get_subcircuit
get_subcircuit(c, name) == c.subcircuits[name]

(***************************************************************************)
(* One sub-circuit, built by a driver and stepped as the tests' step does  *)
(* (start_step, update of the seeds, end_step).                            *)
(*                                                                         *)
(*   cb        the builder, while pc = "building"                          *)
(*   sc        the sub-circuit, once finalized                             *)
(*   pc        "building", then "idle" between steps, "started" after      *)
(*             start_step, "prop" once G was handled, "abort" after a panic *)
(*   seeds     history: the names update was called with in this step      *)
(*   conn0     history: connections as they stood at this step's start     *)
(*   prev_pos  history: switch_positions at the start of the latest step   *)
(*   nsteps    history: the steps completed, counted up to MaxSteps        *)
(*                                                                         *)
(* and one Circuit, driven through its public methods:                     *)
(*                                                                         *)
(*   circuit   the Circuit                                                 *)
(*   cpc       "run", or "abort" once a call on the Circuit panicked       *)
(*   last      history: the latest call on the Circuit and what it did     *)
(*                                                                         *)
(* and, for the operations looked at call by call:                         *)
(*                                                                         *)
(*   bcall     history: the latest call on the builder cb, the builder     *)
(*             before it and what the call returned                        *)
(*   conv      a Handle on its way through Display and From<&str>          *)
(*   busio     the traced bits of a bus and what inspect_bus reads          *)
(*                                                                         *)
(* and the flat machine of common.rs's tests:                              *)
(*                                                                         *)
(*   machine   the machine gate_test or gate_const_test builds, the nodes  *)
(*             its driver set, and what inspect_bus returned               *)
(*                                                                         *)
(* and, for Circuit::step followed one loop iteration at a time:           *)
(*                                                                         *)
(*   work      where the call stands (stage), the locals of step and of    *)
(*             update, and the history of what the loops have processed    *)
(***************************************************************************)
VARIABLES cb, sc, pc, seeds, conn0, prev_pos, nsteps, circuit, cpc, last,
          bcall, conv, busio, machine, work

subcircuitVars == << cb, sc, pc, seeds, conn0, prev_pos, nsteps >>
circuitVars == << circuit, cpc, last >>
callVars == << bcall, conv, busio, machine, work >>
vars == << cb, sc, pc, seeds, conn0, prev_pos, nsteps, circuit, cpc, last,
           bcall, conv, busio, machine, work >>

\* the step counter saturates here
MaxSteps == 1

CoilHandles == {HAa, HAa1}
SwitchNames == {Haa, Hxy}

\* the nodes a driver may wire to: those the builder has issued
Wires(b) == {Wire(n) : n \in 0..(b.num_nodes - 1)}

InBounds(b) ==
    /\ b.num_nodes <= MaxNodes
    /\ Len(b.switches) <= MaxSwitches
    /\ Len(b.coils) <= MaxCoils

\* history: no call on the Circuit yet
NoCall ==
    [op |-> "new", handle |-> HG, found |-> FALSE, log |-> "none", value |-> FALSE,
     seeds |-> {}, prev_seeds |-> {}]

\* history: no call on the builder yet
NoBuilderCall ==
    [op |-> "new", handle |-> HG, specs |-> << >>, ret |-> << >>, panic |-> FALSE,
     before |-> CBuilderNew, n |-> 0]

\* no Handle is being converted, no bus is being read
NoConv == [stage |-> "none"]
NoBus == [stage |-> "none"]
\* no flat machine was built
NoMachine == [stage |-> "none"]
\* no step of the Circuit is being followed loop by loop
NoWork ==
    [stage |-> "none", visited |-> {}, node_name |-> HG, scids |-> << >>, i |-> 1,
     worklist |-> << >>, ret |-> << >>, processed |-> << >>, expanded |-> << >>,
     skipped |-> {}, steps |-> 0]

\* a new builder, no sub-circuit yet, a new Circuit
InitMachine ==
    /\ cb = CBuilderNew
    /\ sc = SubcircuitDefault
    /\ pc = "building"
    /\ seeds = {}
    /\ conn0 = << >>
    /\ prev_pos = << >>
    /\ nsteps = 0
    /\ circuit = CircuitNew
    /\ cpc = "run"
    /\ last = NoCall
    /\ bcall = NoBuilderCall
    /\ machine = NoMachine
    /\ work = NoWork

Init ==
    /\ InitMachine
    /\ conv = NoConv
    /\ busio = NoBus

\* a builder call returned r
Built(r) ==
    /\ InBounds(r.cb)
    /\ cb' = IF r.panic THEN cb ELSE r.cb
    /\ pc' = IF r.panic THEN "abort" ELSE "building"
    /\ UNCHANGED << sc, seeds, conn0, prev_pos, nsteps >>
    /\ UNCHANGED << circuitVars, callVars >>

\* the driver calls cb.node(spec): G is named first, as the tests do
Node ==
    /\ pc = "building"
    /\ \E spec \in (IF cb.num_nodes = 0 THEN {Named(HG)} ELSE {New}) :
           Built(node(cb, spec))

\* the driver calls cb.add_coil(handle, pos)
AddCoil ==
    /\ pc = "building"
    /\ \E handle \in CoilHandles, pos \in Wires(cb) :
           Built(add_coil(cb, handle, pos))

\* the driver calls cb.add_switch(name, (pole, no, nc))
AddSwitch ==
    /\ pc = "building"
    /\ \E name \in SwitchNames, pole \in Wires(cb), no \in Wires(cb), nc \in Wires(cb) :
           Built(add_switch(cb, name, << pole, no, nc >>))

\* the driver calls cb.finalize()
Finalize ==
    /\ pc = "building"
    /\ IF FinalizePanics(cb)
       THEN pc' = "abort" /\ sc' = sc
       ELSE pc' = "idle" /\ sc' = finalize(cb)
    /\ UNCHANGED << cb, seeds, conn0, prev_pos, nsteps >>
    /\ UNCHANGED << circuitVars, callVars >>

\* step: self.start_step()
StartStep ==
    /\ pc = "idle"
    /\ sc' = start_step(sc)
    /\ pc' = "started"
    /\ seeds' = {}
    /\ conn0' = sc.connections
    /\ prev_pos' = sc.switch_positions
    /\ UNCHANGED << cb, nsteps >>
    /\ UNCHANGED << circuitVars, callVars >>

\* step: if self.name_to_node.contains_key(G) { self.update(G) }
UpdateG ==
    /\ pc = "started"
    /\ IF HG \in DOMAIN sc.name_to_node
       THEN sc' = update(sc, HG).sc /\ seeds' = {HG}
       ELSE UNCHANGED << sc, seeds >>
    /\ pc' = "prop"
    /\ UNCHANGED << cb, conn0, prev_pos, nsteps >>
    /\ UNCHANGED << circuitVars, callVars >>

\* a driven node: subcircuit.update(node_name) for a name the sub-circuit knows
UpdateSource ==
    /\ pc = "prop"
    /\ Cardinality(seeds \ {HG}) < MaxSources
    /\ \E node_name \in DOMAIN sc.name_to_node \ seeds :
           /\ sc' = update(sc, node_name).sc
           /\ seeds' = seeds \cup {node_name}
    /\ UNCHANGED << cb, pc, conn0, prev_pos, nsteps >>
    /\ UNCHANGED << circuitVars, callVars >>

\* step: self.end_step()
EndStep ==
    /\ pc = "prop"
    /\ IF EndStepPanics(sc)
       THEN pc' = "abort" /\ UNCHANGED << sc, nsteps >>
       ELSE /\ sc' = end_step(sc)
            /\ pc' = "idle"
            /\ nsteps' = IF nsteps < MaxSteps THEN nsteps + 1 ELSE nsteps
    /\ seeds' = {}
    /\ conn0' = << >>
    /\ UNCHANGED << cb, prev_pos >>
    /\ UNCHANGED << circuitVars, callVars >>

Next ==
    \/ Node
    \/ AddCoil
    \/ AddSwitch
    \/ Finalize
    \/ StartStep
    \/ UpdateG
    \/ UpdateSource
    \/ EndStep

Spec == Init /\ [][Next]_vars

(***************************************************************************)
(* The Circuit, driven through build_subcircuit, set, inspect and step.    *)
(***************************************************************************)
\* a public node is listed for at most this many sub-circuits
MaxShare == 2
\* the driver sets at most this many nodes between two steps
MaxSetNodes == 2

SubcircuitIds == {"A", "B"}
Builds == {BuildA, BuildB, BuildRelay}
\* the handles the driver passes to set and inspect; HAa0 is never exposed
DriverHandles == {HG, Hshared, Hno, HAa0}

\* the driver calls c.build_subcircuit(name, build); as main and the tests do, it
\* builds every sub-circuit before it drives the Circuit
BuildSubcircuit ==
    /\ cpc = "run"
    /\ last.op \in {"new", "build_subcircuit"}
    /\ \E name \in SubcircuitIds, build \in Builds :
           LET r == build_subcircuit(circuit, name, build)
           IN /\ \A h \in DOMAIN r.c.nodes : Len(r.c.nodes[h].subcircuits) <= MaxShare
              /\ circuit' = r.c
              /\ cpc' = IF r.panic THEN "abort" ELSE "run"
              /\ last' = [NoCall EXCEPT !.op = "build_subcircuit"]
    /\ UNCHANGED << subcircuitVars, callVars >>

\* the driver calls c.set(&handle)
Set ==
    /\ cpc = "run"
    /\ Len(circuit.set_nodes) < MaxSetNodes
    /\ \E handle \in DriverHandles :
           LET r == set(circuit, handle)
           IN /\ circuit' = r.c
              /\ last' = [NoCall EXCEPT !.op = "set", !.handle = handle,
                                        !.found = handle \in DOMAIN circuit.nodes,
                                        !.log = r.log]
    /\ UNCHANGED cpc
    /\ UNCHANGED << subcircuitVars, callVars >>

\* the driver calls c.inspect(&handle)
Inspect ==
    /\ cpc = "run"
    /\ \E handle \in DriverHandles :
           LET r == inspect(circuit, handle)
           IN /\ cpc' = IF r.panic THEN "abort" ELSE "run"
              /\ last' = [NoCall EXCEPT !.op = "inspect", !.handle = handle,
                                        !.found = handle \in DOMAIN circuit.nodes,
                                        !.log = r.log, !.value = r.value]
    /\ UNCHANGED circuit
    /\ UNCHANGED << subcircuitVars, callVars >>

\* the driver calls c.step()
Step ==
    /\ cpc = "run"
    /\ LET r == step(circuit)
       IN /\ circuit' = r.c
          /\ cpc' = IF r.panic THEN "abort" ELSE "run"
          /\ last' = [NoCall EXCEPT !.op = "step",
                                    !.seeds = Elems(Append(circuit.set_nodes, HG)),
                                    !.prev_seeds = IF last.op = "step" THEN last.seeds
                                                   ELSE {}]
    /\ UNCHANGED << subcircuitVars, callVars >>

NextCircuit ==
    \/ BuildSubcircuit
    \/ Set
    \/ Inspect
    \/ Step

SpecCircuit == Init /\ [][NextCircuit]_vars

(***************************************************************************)
(* The builder, call by call: every call is recorded in bcall with the     *)
(* builder it was made on.                                                 *)
(***************************************************************************)
\* the driver makes at most this many calls on a builder
MaxCalls == 4

\* the names the driver uses in Named specs, and the handles of its coils
NamedHandles == {HG, HS5, Hno}
BuilderCoilHandles == {HAa, Hno}

\* the specs a driver may pass: a node already issued, a new node, a name
Specs(b) == Wires(b) \cup {New} \cup {Named(h) : h \in NamedHandles}

\* the call op(handle, specs) was made on cb, and r is what it did
Called(op, handle, specs, r) ==
    /\ InBounds(r.cb)
    /\ bcall' = [op |-> op, handle |-> handle, specs |-> specs, ret |-> r.ret,
                 panic |-> r.panic, before |-> cb, n |-> bcall.n + 1]
    /\ cb' = r.cb
    /\ pc' = IF r.panic THEN "abort" ELSE "building"
    /\ UNCHANGED << sc, seeds, conn0, prev_pos, nsteps, circuitVars, conv, busio, machine, work >>

\* the driver calls cb.node(spec)
CallNode ==
    /\ pc = "building"
    /\ bcall.n < MaxCalls
    /\ \E spec \in Specs(cb) : Called("node", HG, << spec >>, node(cb, spec))

\* the driver calls cb.add_coil(handle, pos)
CallAddCoil ==
    /\ pc = "building"
    /\ bcall.n < MaxCalls
    /\ \E handle \in BuilderCoilHandles, pos \in Specs(cb) :
           Called("add_coil", handle, << pos >>, add_coil(cb, handle, pos))

\* the driver calls cb.add_switch(name, (pole, no, nc))
CallAddSwitch ==
    /\ pc = "building"
    /\ bcall.n < MaxCalls
    /\ \E pole \in Specs(cb), no \in {New, Named(Hno)} :
           Called("add_switch", Haa, << pole, no, New >>,
                  add_switch(cb, Haa, << pole, no, New >>))

\* the driver calls cb.finalize()
CallFinalize ==
    /\ pc = "building"
    /\ IF FinalizePanics(cb)
       THEN pc' = "abort" /\ sc' = sc
       ELSE pc' = "idle" /\ sc' = finalize(cb)
    /\ bcall' = [NoBuilderCall EXCEPT !.op = "finalize", !.before = cb, !.n = bcall.n]
    /\ UNCHANGED << cb, seeds, conn0, prev_pos, nsteps, circuitVars, conv, busio, machine, work >>

NextBuilder ==
    \/ CallNode
    \/ CallAddCoil
    \/ CallAddSwitch
    \/ CallFinalize

SpecBuilder == Init /\ [][NextBuilder]_vars

(***************************************************************************)
(* Linking: a driver adds coils and switches of many names, each on nodes  *)
(* of its own, and finalizes.                                              *)
(***************************************************************************)
\* the driver adds at most this many coils and this many switches
MaxLinkCoils == 2
MaxLinkSwitches == 2

LinkCoilHandles == {HAa, HAa1, HAA, HAa_1}
\* a switch may carry any Handle, one in capitals or one with a sup too
LinkSwitchNames == {Haa, Haa_1, Haa1, HAa}

\* the driver calls cb.add_coil(handle, New)
LinkCoil ==
    /\ pc = "building"
    /\ Len(cb.coils) < MaxLinkCoils
    /\ \E handle \in LinkCoilHandles :
           LET r == add_coil(cb, handle, New)
           IN /\ cb' = r.cb
              /\ pc' = IF r.panic THEN "abort" ELSE "building"
    /\ UNCHANGED << sc, seeds, conn0, prev_pos, nsteps, circuitVars, callVars >>

\* the driver calls cb.add_switch(name, (New, New, New))
LinkSwitch ==
    /\ pc = "building"
    /\ Len(cb.switches) < MaxLinkSwitches
    /\ \E name \in LinkSwitchNames :
           LET r == add_switch(cb, name, << New, New, New >>)
           IN /\ cb' = r.cb
              /\ pc' = IF r.panic THEN "abort" ELSE "building"
    /\ UNCHANGED << sc, seeds, conn0, prev_pos, nsteps, circuitVars, callVars >>

\* the driver calls cb.finalize()
LinkFinalize ==
    /\ pc = "building"
    /\ IF FinalizePanics(cb)
       THEN pc' = "abort" /\ sc' = sc
       ELSE pc' = "idle" /\ sc' = finalize(cb)
    /\ UNCHANGED << cb, seeds, conn0, prev_pos, nsteps, circuitVars, callVars >>

NextLink ==
    \/ LinkCoil
    \/ LinkSwitch
    \/ LinkFinalize

SpecLink == Init /\ [][NextLink]_vars

(***************************************************************************)
(* What the claims speak of                                                *)
(***************************************************************************)
Nodes(s) == 0..(Len(s.node_states) - 1)
Switches(s) == 0..(Len(s.switches) - 1)


\* the nodes joined to the nodes S by the undirected edges of connections
RECURSIVE Reach(_, _)
Reach(S, connections) ==
    LET more == S \cup {m \in 0..(Len(connections) - 1) :
                           \E n \in S : m \in Elems(connections[n + 1])
                                        \/ n \in Elems(connections[m + 1])}
    IN IF more = S THEN S ELSE Reach(more, connections)

\* the nodes of the names update was called with in this step
SeedNodes == {sc.name_to_node[h] : h \in seeds}

\* switch sw is in the switch list of a coil at node n
Drives(s, n, sw) ==
    \E c \in 1..Len(s.coils[n + 1]) : sw \in Elems(s.coils[n + 1][c].switches)

\* the throw switch sw connects its pole to when its position is active
Throw(s, sw, active) == IF active THEN s.switches[sw + 1].no ELSE s.switches[sw + 1].nc

\* connections holds the edge a - b, entered at both ends
HasEdge(s, a, b) == b \in Elems(s.connections[a + 1]) /\ a \in Elems(s.connections[b + 1])

\* connections is, entry for entry, one edge pole - throw per switch at positions pos
OneEdgePerSwitch(s, pos) ==
    /\ Len(s.connections) = Len(s.node_states)
    /\ \A a \in Nodes(s), b \in Nodes(s) :
           Count(s.connections[a + 1], b) =
               Cardinality({sw \in Switches(s) :
                               s.switches[sw + 1].pole = a /\ Throw(s, sw, pos[sw + 1]) = b})
             + Cardinality({sw \in Switches(s) :
                               s.switches[sw + 1].pole = b /\ Throw(s, sw, pos[sw + 1]) = a})

InStep == pc \in {"started", "prop"}
AfterStep == pc = "idle" /\ nsteps >= 1

(***************************************************************************)
(* C1: while a step propagates, and so when propagation ends, every switch *)
(* in the switch list of a coil whose terminal node is reachable from the  *)
(* step's seeds (G and the driven nodes) through connections has           *)
(* next_switch_positions = true.                                           *)
(***************************************************************************)
C1_ReachableCoilsMarkTheirSwitches ==
    pc = "prop" =>
        \A n \in Reach(SeedNodes, sc.connections) :
            \A sw \in Switches(sc) :
                Drives(sc, n, sw) => sc.next_switch_positions[sw + 1]

\* a coil with two switches is energized and marked both, another switch is not marked
C1_Witness ==
    /\ pc = "prop"
    /\ \E n \in Reach(SeedNodes, sc.connections) :
           \E c \in 1..Len(sc.coils[n + 1]) : Len(sc.coils[n + 1][c].switches) = 2
    /\ nsteps >= 1

(***************************************************************************)
(* C2: after every step a switch is active iff some coil linked to it had  *)
(* its terminal energized in that step; a switch that was active during    *)
(* the step and none of whose coils was energized is back at NC.           *)
(***************************************************************************)
C2_ActiveIffACoilEnergized ==
    AfterStep =>
        \A sw \in Switches(sc) :
            /\ sc.switch_positions[sw + 1] <=>
                   \E n \in Nodes(sc) : sc.node_states[n + 1] /\ Drives(sc, n, sw)
            /\ (prev_pos[sw + 1] /\ ~\E n \in Nodes(sc) : sc.node_states[n + 1] /\ Drives(sc, n, sw))
                   => ~sc.switch_positions[sw + 1]

\* a switch that was active in the step has returned to NC, another one is active
C2_Witness ==
    /\ AfterStep
    /\ \E sw \in Switches(sc) : prev_pos[sw + 1] /\ ~sc.switch_positions[sw + 1]

(***************************************************************************)
(* C3: throughout a step (after start_step, and after every update)        *)
(* switch_positions and connections are those the step started with.       *)
(***************************************************************************)
C3_PropagationKeepsTheGraph ==
    InStep => sc.connections = conn0 /\ sc.switch_positions = prev_pos

\* in a later step a coil was energized whose switch is still at NC during the step
C3_Witness ==
    /\ pc = "prop"
    /\ nsteps >= 1
    /\ \E sw \in Switches(sc) : sc.next_switch_positions[sw + 1] /\ ~sc.switch_positions[sw + 1]

(***************************************************************************)
(* C4, as claimed: after every step, for every switch exactly one of the   *)
(* edges pole - no and pole - nc is in connections, and it is pole - no    *)
(* iff the switch is active.                                               *)
(***************************************************************************)
C4_ExactlyOneEdgeInConnections ==
    AfterStep =>
        \A sw \in Switches(sc) :
            LET s == sc.switches[sw + 1]
            IN /\ HasEdge(sc, s.pole, s.no) # HasEdge(sc, s.pole, s.nc)
               /\ HasEdge(sc, s.pole, s.no) <=> sc.switch_positions[sw + 1]

(***************************************************************************)
(* C4, amended: after every step connections holds exactly one edge per    *)
(* switch, pole - no if the switch is active and pole - nc if not, entered *)
(* at both ends; so the edge to the selected throw of every switch exists, *)
(* and the edge to its other throw exists only where that throw is the     *)
(* same node or another switch selects an edge between the same two nodes. *)
(***************************************************************************)
C4_OneEdgePerSwitch ==
    AfterStep =>
        /\ OneEdgePerSwitch(sc, sc.switch_positions)
        /\ \A sw \in Switches(sc) :
               LET s == sc.switches[sw + 1]
                   on == Throw(sc, sw, sc.switch_positions[sw + 1])
                   off == Throw(sc, sw, ~sc.switch_positions[sw + 1])
               IN /\ HasEdge(sc, s.pole, on)
                  /\ HasEdge(sc, s.pole, off) =>
                         \/ off = on
                         \/ \E other \in Switches(sc) \ {sw} :
                                {sc.switches[other + 1].pole,
                                 Throw(sc, other, sc.switch_positions[other + 1])} = {s.pole, off}

\* after a step one switch is active and another is not, each with two different throws
C4_Witness ==
    /\ AfterStep
    /\ \E a \in Switches(sc), b \in Switches(sc) :
           /\ sc.switch_positions[a + 1] /\ ~sc.switch_positions[b + 1]
           /\ sc.switches[a + 1].no # sc.switches[a + 1].nc
           /\ sc.switches[b + 1].no # sc.switches[b + 1].nc

(***************************************************************************)
(* C5: when a step ends, node_states (what is_high reads) is true exactly  *)
(* of the nodes reachable from the step's seeds through connections as     *)
(* they stood when the step started.                                       *)
(***************************************************************************)
C5_EndOfStep ==
    pc = "prop" /\ pc' = "idle" =>
        \A n \in Nodes(sc) : sc'.node_states[n + 1] <=> n \in Reach(SeedNodes, conn0)

C5_StateIsReachability == [][C5_EndOfStep]_vars

\* after a later step a node other than G is high and another node is low
C5_Witness ==
    /\ AfterStep
    /\ HG \in DOMAIN sc.name_to_node
    /\ \E n \in Nodes(sc) : n # sc.name_to_node[HG] /\ sc.node_states[n + 1]
    /\ \E n \in Nodes(sc) : ~sc.node_states[n + 1]
    /\ \E sw \in Switches(sc) : sc.switch_positions[sw + 1]

(***************************************************************************)
(* C6: after finalize and before any step every switch is inactive,        *)
(* next_switch_positions is all false, every node is low, and connections  *)
(* holds exactly the pole - nc edge of every switch.                       *)
(***************************************************************************)
C6_RestingStateAfterFinalize ==
    (pc = "idle" /\ nsteps = 0) =>
        /\ Len(sc.switch_positions) = Len(sc.switches)
        /\ Len(sc.next_switch_positions) = Len(sc.switches)
        /\ \A sw \in Switches(sc) :
               ~sc.switch_positions[sw + 1] /\ ~sc.next_switch_positions[sw + 1]
        /\ Len(sc.node_states) = cb.num_nodes
        /\ \A n \in Nodes(sc) : ~sc.node_states[n + 1]
        /\ OneEdgePerSwitch(sc, VecOf(FALSE, Len(sc.switches)))

\* a machine with two switches whose throws differ has just been finalized
C6_Witness ==
    /\ pc = "idle" /\ nsteps = 0
    /\ Len(sc.switches) = 2
    /\ \A sw \in Switches(sc) : sc.switches[sw + 1].no # sc.switches[sw + 1].nc

(***************************************************************************)
(* The Circuit as one graph: a point is a node of a sub-circuit, and two   *)
(* points are joined by an edge of connections or by a public name that    *)
(* both sub-circuits expose.                                               *)
(***************************************************************************)
Points(c) == UNION {{<< s, n >> : n \in Nodes(c.subcircuits[s])} : s \in DOMAIN c.subcircuits}

Joined(c, p, q) ==
    \/ p[1] = q[1] /\ q[2] \in Elems(c.subcircuits[p[1]].connections[p[2] + 1])
    \/ \E h \in DOMAIN c.subcircuits[p[1]].name_to_node \cap
                DOMAIN c.subcircuits[q[1]].name_to_node :
           /\ c.subcircuits[p[1]].name_to_node[h] = p[2]
           /\ c.subcircuits[q[1]].name_to_node[h] = q[2]

\* the points reachable from the points S
RECURSIVE ReachPoints(_, _)
ReachPoints(S, c) ==
    LET T == S \cup {q \in Points(c) : \E p \in S : Joined(c, p, q)}
    IN IF T = S THEN S ELSE ReachPoints(T, c)

\* the points a public name stands for
PointsOf(c, h) ==
    {<< s, c.subcircuits[s].name_to_node[h] >> :
         s \in {x \in DOMAIN c.subcircuits : h \in DOMAIN c.subcircuits[x].name_to_node}}

\* the public node h is wired to G
ConnectedToG(c, h) == PointsOf(c, h) \cap ReachPoints(PointsOf(c, HG), c) # {}

\* the latest call on the Circuit was a step, and it returned
StepReturned == cpc = "run" /\ last.op = "step"

(***************************************************************************)
(* C7: step consumes the external source list.  When step returns,         *)
(* set_nodes is empty; so of two steps with no call of set between them    *)
(* the second is seeded by G alone, whatever the first was seeded with.    *)
(***************************************************************************)
C7_StepConsumesTheSourceList ==
    StepReturned =>
        /\ circuit.set_nodes = << >>
        /\ last.prev_seeds # {} => last.seeds = {HG}

\* a node was driven by set before one step, and the step after it, seeded by G alone,
\* left the node low
C7_Witness ==
    /\ StepReturned
    /\ Hshared \in last.prev_seeds
    /\ last.seeds = {HG}
    /\ ~circuit.nodes[Hshared].state

(***************************************************************************)
(* C8: G is a seed of every step.  After every step of a Circuit that      *)
(* knows G, G is energized and so is every public node wired to G through  *)
(* the connections of the sub-circuits and the names they share.           *)
(***************************************************************************)
C8_GroundSeedsEveryStep ==
    (StepReturned /\ HG \in DOMAIN circuit.nodes) =>
        \A h \in DOMAIN circuit.nodes : ConnectedToG(circuit, h) => circuit.nodes[h].state

(***************************************************************************)
(* C9: set with a handle that names no known node is a no-op.  The call    *)
(* returns, and the Circuit (sources, sub-circuits with their switch       *)
(* positions, connections and node states, public node states) is as it    *)
(* was, so that the step that follows does what it would have done.        *)
(***************************************************************************)
C9_SetOfUnknownHandle ==
    (last'.op = "set" /\ ~last'.found) =>
        /\ cpc' = "run"
        /\ circuit' = circuit
        /\ step(circuit') = step(circuit)

C9_SetOfUnknownHandleIsNoOp == [][C9_SetOfUnknownHandle]_vars

\* set was called with an unknown handle on a Circuit that has sub-circuits and a
\* source waiting
C9_Witness ==
    /\ last.op = "set"
    /\ ~last.found
    /\ last.log = "warn"
    /\ circuit.set_nodes # << >>
    /\ DOMAIN circuit.subcircuits # {}

(***************************************************************************)
(* C10: inspect with a handle that names no known node is fatal: the call  *)
(* aborts, it does not return.                                             *)
(***************************************************************************)
C10_InspectOfUnknownHandleIsFatal ==
    (last.op = "inspect" /\ ~last.found) => cpc = "abort"

(***************************************************************************)
(* C11: two add_coil calls with the same Handle on one builder are an      *)
(* error.  Whatever spec the second call is given, it panics, and the      *)
(* builder holds one coil of that Handle, not two.                         *)
(***************************************************************************)
CoilsNamed(b, h) == {i \in 1..Len(b.coils) : b.coils[i].name = h}

C12_AddCoilOfBoundHandleIsIdempotent ==
    (bcall.op = "add_coil" /\ bcall.handle \in DOMAIN bcall.before.node_aliases) =>
        /\ ~bcall.panic
        /\ bcall.ret = bcall.before.node_aliases[bcall.handle]
        /\ cb.coils = bcall.before.coils

(***************************************************************************)
(* C13: an add_coil(h, pos) that returns gives the NodeId pos resolves to  *)
(* (Wire(n): n; Named(x): the node of x, a new one if x was free; New: a   *)
(* new node), and binds h to it as one more name: Named(h) then resolves   *)
(* to that NodeId and allocates nothing, the names bound before keep their *)
(* nodes, and the coil is recorded at that node, where finalize puts it.   *)
(***************************************************************************)
\* the NodeId a spec resolves to on builder b
Resolves(b, spec) ==
    CASE spec.kind = "Wire" -> spec.node
      [] spec.kind = "New" -> b.num_nodes
      [] spec.kind = "Named" ->
             IF spec.name \in DOMAIN b.node_aliases
             THEN b.node_aliases[spec.name] ELSE b.num_nodes

\* the builder's coils whose terminal is node n
CoilsAt(b, n) == {i \in 1..Len(b.coils) : b.coils[i].pos = n}

C14_NamedResolvesToOneNode ==
    /\ pc = "building" =>
           \A h \in NamedHandles \cup BuilderCoilHandles :
               LET r1 == named_node(cb, h)
                   r2 == named_node(r1.cb, h)
               IN /\ ~r1.panic /\ ~r2.panic
                  /\ r2.ret = r1.ret
                  /\ r2.cb = r1.cb
                  /\ IF h \in DOMAIN cb.node_aliases
                     THEN r1.cb = cb /\ r1.ret = cb.node_aliases[h]
                     ELSE /\ r1.ret = cb.num_nodes
                          /\ r1.cb.num_nodes = cb.num_nodes + 1
                          /\ r1.cb.node_aliases = MapPut(cb.node_aliases, h, cb.num_nodes)
    /\ (bcall.op \in {"node", "add_coil", "add_switch"} /\ ~bcall.panic) =>
           \A x \in DOMAIN bcall.before.node_aliases :
               /\ x \in DOMAIN cb.node_aliases
               /\ cb.node_aliases[x] = bcall.before.node_aliases[x]
    /\ (bcall.op = "node" /\ bcall.specs[1].kind = "Named"
            /\ bcall.specs[1].name \in DOMAIN bcall.before.node_aliases) =>
           /\ ~bcall.panic
           /\ bcall.ret = bcall.before.node_aliases[bcall.specs[1].name]
           /\ cb = bcall.before

\* a name bound two calls ago or earlier, on a builder that has issued other nodes
\* since, was resolved again
C14_Witness ==
    /\ bcall.op = "node"
    /\ bcall.specs[1].kind = "Named"
    /\ bcall.specs[1].name \in DOMAIN bcall.before.node_aliases
    /\ bcall.ret + 1 < cb.num_nodes
    /\ cb = bcall.before

(***************************************************************************)
(* C15: NodeIds are dense from 0.  In every call that returns, each spec   *)
(* that allocates (New, or Named of a name free at that point) gets the    *)
(* node count of that moment and raises it by one, so the ids a call       *)
(* issues are the next ones in order; every NodeId the builder holds is    *)
(* below its node count N; and finalize gives node_states, connections and *)
(* coils N entries each.                                                   *)
(***************************************************************************)
\* what the specs of one call resolve to, left to right, from the names bound and the
\* node count before the call: [rets, count]
RECURSIVE ResolveAll(_, _, _, _, _)
ResolveAll(bound, count, specs, i, rets) ==
    IF i > Len(specs)
    THEN [rets |-> rets, count |-> count]
    ELSE LET spec == specs[i]
         IN CASE spec.kind = "Wire" ->
                     ResolveAll(bound, count, specs, i + 1, Append(rets, spec.node))
              [] spec.kind = "New" ->
                     ResolveAll(bound, count + 1, specs, i + 1, Append(rets, count))
              [] spec.kind = "Named" ->
                     IF spec.name \in DOMAIN bound
                     THEN ResolveAll(bound, count, specs, i + 1,
                                     Append(rets, bound[spec.name]))
                     ELSE ResolveAll(MapPut(bound, spec.name, count), count + 1, specs,
                                     i + 1, Append(rets, count))

\* the NodeIds a builder holds: in its names, its coils and its switches
HeldIds(b) ==
    {b.node_aliases[h] : h \in DOMAIN b.node_aliases}
        \cup {b.coils[i].pos : i \in 1..Len(b.coils)}
        \cup UNION {{b.switches[i].pole, b.switches[i].no, b.switches[i].nc} :
                    i \in 1..Len(b.switches)}
        \cup DOMAIN b.public_nodes

C15_NodeIdsAreDense ==
    /\ (bcall.op \in {"node", "add_coil", "add_switch"} /\ ~bcall.panic) =>
           LET e == ResolveAll(bcall.before.node_aliases, bcall.before.num_nodes,
                               bcall.specs, 1, << >>)
           IN /\ cb.num_nodes = e.count
              /\ e.rets = IF bcall.op = "add_switch" THEN bcall.ret ELSE << bcall.ret >>
    /\ pc # "abort" => HeldIds(cb) \subseteq 0..(cb.num_nodes - 1)
    /\ (bcall.op = "finalize" /\ pc = "idle") =>
           /\ Len(sc.node_states) = cb.num_nodes
           /\ Len(sc.connections) = cb.num_nodes
           /\ Len(sc.coils) = cb.num_nodes

\* a builder with a coil and a switch, three nodes issued, was finalized
C15_Witness ==
    /\ bcall.op = "finalize"
    /\ pc = "idle"
    /\ cb.num_nodes >= 3
    /\ cb.coils # << >>
    /\ cb.switches # << >>
    /\ Len(sc.node_states) = cb.num_nodes

(***************************************************************************)
(* C16: after finalize the switch list of a coil with Handle (name, index, *)
(* sup) holds, once each, the switches whose Handle is (lowercase(name),   *)
(* index, None) and no others: not a switch of another name or index, not  *)
(* one with a sup, not one in capitals.  Coils that differ in capitals or  *)
(* in sup only have the same list.                                         *)
(***************************************************************************)
\* the switches (SwitchIds) a coil of Handle h is to drive
Matching(b, h) ==
    {i - 1 : i \in {j \in 1..Len(b.switches) :
                        /\ b.switches[j].name.name = ToLowercase(h.name)
                        /\ b.switches[j].name.index = h.index
                        /\ b.switches[j].name.sup = None}}

\* the switch list finalize gave the k-th coil of the builder (each coil of this
\* driver sits on a node of its own)
LinkedTo(b, s, k) == s.coils[b.coils[k].pos + 1][1].switches

C16_CoilsLinkByLowercaseName ==
    pc = "idle" =>
        /\ \A k \in 1..Len(cb.coils) :
               /\ Len(sc.coils[cb.coils[k].pos + 1]) = 1
               /\ Elems(LinkedTo(cb, sc, k)) = Matching(cb, cb.coils[k].name)
               /\ Len(LinkedTo(cb, sc, k)) = Cardinality(Matching(cb, cb.coils[k].name))
        /\ \A k1, k2 \in 1..Len(cb.coils) :
               (/\ ToLowercase(cb.coils[k1].name.name) = ToLowercase(cb.coils[k2].name.name)
                /\ cb.coils[k1].name.index = cb.coils[k2].name.index) =>
                   LinkedTo(cb, sc, k1) = LinkedTo(cb, sc, k2)

\* two coils that differ in capitals and sup drive the one switch aa_0, and the switch
\* aa_0^1 is driven by neither
C16_Witness ==
    /\ pc = "idle"
    /\ Len(cb.coils) = 2
    /\ Len(cb.switches) = 2
    /\ {cb.coils[1].name, cb.coils[2].name} = {HAa1, HAA}
    /\ {cb.switches[1].name, cb.switches[2].name} = {Haa, Haa1}
    /\ LinkedTo(cb, sc, 1) = LinkedTo(cb, sc, 2)
    /\ Len(LinkedTo(cb, sc, 1)) = 1

(***************************************************************************)
(* C17: a coil with no matching switch is no error.  finalize does not     *)
(* panic on it; the coil is on the list of its terminal node, with an      *)
(* empty switch list; energizing a node whose coils are all such coils     *)
(* marks no switch, and in a machine all of whose coils are such coils no  *)
(* switch is ever marked or active.                                        *)
(***************************************************************************)
\* the k-th coil of builder b has no switch to drive
Orphan(b, k) == Matching(b, b.coils[k].name) = {}

\* the place of the k-th coil of the builder on the list of its node
PlaceAtNode(b, k) == Cardinality({i \in CoilsAt(b, b.coils[k].pos) : i <= k})

Finalized == pc \in {"idle", "started", "prop"}

C17_OrphanCoilActuatesNothing ==
    /\ (pc = "building" /\ \E k \in 1..Len(cb.coils) : Orphan(cb, k)) => ~FinalizePanics(cb)
    /\ Finalized =>
           /\ \A k \in 1..Len(cb.coils) :
                  Orphan(cb, k) =>
                      /\ PlaceAtNode(cb, k) <= Len(sc.coils[cb.coils[k].pos + 1])
                      /\ sc.coils[cb.coils[k].pos + 1][PlaceAtNode(cb, k)].switches = << >>
           /\ \A n \in Nodes(sc) :
                  (\A k \in CoilsAt(cb, n) : Orphan(cb, k)) =>
                      MarkCoils(sc, n, sc.next_switch_positions) = sc.next_switch_positions
           /\ (\A k \in 1..Len(cb.coils) : Orphan(cb, k)) =>
                  /\ \A i \in 1..Len(sc.switches) : ~sc.next_switch_positions[i]
                  /\ \A i \in 1..Len(sc.switches) : ~sc.switch_positions[i]

\* a step has ended in which the node of a coil with no switch was energized, in a
\* machine that has a switch
C17_Witness ==
    /\ AfterStep
    /\ sc.switches # << >>
    /\ \E k \in 1..Len(cb.coils) :
           /\ Orphan(cb, k)
           /\ sc.node_states[cb.coils[k].pos + 1]
           /\ sc.coils[cb.coils[k].pos + 1] # << >>

(***************************************************************************)
(* C18: a Handle bound to a node by the builder of circuit/subcircuit.rs   *)
(* is exposed automatically if and only if its name is made of uppercase   *)
(* ASCII letters and underscores only and it has neither index nor sup;    *)
(* G is exposed wherever it is bound, a Handle with an index (S_5, Aa_0)   *)
(* is not.  The builder calls of SpecBuilder never call expose_node        *)
(* themselves, so every exposure there is an automatic one.                *)
(***************************************************************************)
\* handle h is on the public list of some node of builder b
Exposed(b, h) ==
    \E n \in DOMAIN b.public_nodes : h \in Elems(b.public_nodes[n])

\* the rule the claim states
CapitalsOnly(h) ==
    /\ \A i \in 1..Len(h.name) : h.name[i] \in Elems(UpperChars) \cup {"_"}
    /\ h.index = None
    /\ h.sup = None

C18_ExposedIffCapitalsOnly ==
    \A h \in DOMAIN cb.node_aliases :
        /\ Exposed(cb, h) <=> CapitalsOnly(h)
        /\ h = HG => Exposed(cb, h)
        /\ h.index # None => ~Exposed(cb, h)

(***************************************************************************)
(* Handle text form (circuit/handle.rs)                                    *)
(*                                                                         *)
(* A String is the sequence of its characters.  Display writes the name,   *)
(* then "_" and the index, then "^" and the sup; From<&str> cuts the text  *)
(* at the first '^' and then at the first '_' and parses the two numbers.  *)
(***************************************************************************)
I8Min == -128
I8Max == 127
U8Max == 255

Digits == << "0", "1", "2", "3", "4", "5", "6", "7", "8", "9" >>

\* the value of a decimal digit character
DigitValue(c) == (CHOOSE d \in 1..10 : Digits[d] = c) - 1

\* core::fmt of an unsigned number: its decimal digits, no leading zero
RECURSIVE FormatNat(_)
FormatNat(n) ==
    IF n < 10 THEN << Digits[n + 1] >>
    ELSE Append(FormatNat(n \div 10), Digits[(n % 10) + 1])

\* Display of i8 and of u8: a minus sign for a negative number, then the digits
FormatInt(n) == IF n < 0 THEN << "-" >> \o FormatNat(-n) ELSE FormatNat(n)

\* impl Display for Handle
fmt(handle) ==
    handle.name
        \o (IF handle.index # None THEN << "_" >> \o FormatInt(handle.index[1]) ELSE << >>)
        \o (IF handle.sup # None THEN << "^" >> \o FormatInt(handle.sup[1]) ELSE << >>)

\* str::find(char): the byte offset of the first occurrence
Find(s, c) ==
    IF \E i \in 1..Len(s) : s[i] = c
    THEN Some((CHOOSE i \in 1..Len(s) : s[i] = c /\ \A j \in 1..(i - 1) : s[j] # c) - 1)
    ELSE None

\* the text is one decimal digit or more
IsDigits(s) == s # << >> /\ \A i \in 1..Len(s) : s[i] \in Elems(Digits)

RECURSIVE DigitsValue(_)
DigitsValue(s) ==
    IF s = << >> THEN 0
    ELSE DigitsValue(SubSeq(s, 1, Len(s) - 1)) * 10 + DigitValue(s[Len(s)])

\* str::parse::<i8>: an optional sign, digits, a value an i8 holds; None is Err
parse_i8(s) ==
    LET signed == s # << >> /\ s[1] \in {"+", "-"}
        body == IF signed THEN Tail(s) ELSE s
        v == IF signed /\ s[1] = "-" THEN 0 - DigitsValue(body) ELSE DigitsValue(body)
    IN IF IsDigits(body) /\ v \in I8Min..I8Max THEN Some(v) ELSE None

\* str::parse::<u8>: an optional plus sign, digits, a value a u8 holds; None is Err
parse_u8(s) ==
    LET body == IF s # << >> /\ s[1] = "+" THEN Tail(s) ELSE s
    IN IF IsDigits(body) /\ DigitsValue(body) \in 0..U8Max
       THEN Some(DigitsValue(body)) ELSE None

\* the outcome of From<&str>: a Handle, or a panic of unwrap / expect
Parsed(handle) == [panic |-> FALSE, handle |-> handle]
ParsePanic == [panic |-> TRUE]

\* From<&str> with a slip: the text is cut at '_' before it is cut at '^'
from_index_first(s) ==
    LET j == Find(s, "_")
        index == IF j = None THEN Some(None)
                 ELSE LET p == parse_i8(SubSeq(s, j[1] + 2, Len(s)))
                      IN IF p = None THEN None ELSE Some(p)
        rem1 == IF j = None THEN s ELSE SubSeq(s, 1, j[1])
        i == Find(rem1, "^")
        sup == IF i = None THEN Some(None)
               ELSE LET p == parse_u8(SubSeq(rem1, i[1] + 2, Len(rem1)))
                    IN IF p = None THEN None ELSE Some(p)
        rem2 == IF i = None THEN rem1 ELSE SubSeq(rem1, 1, i[1])
    IN IF index = None \/ sup = None THEN ParsePanic
       ELSE Parsed(Handle(rem2, index[1], sup[1]))

\* impl From<&str> for Handle.  sup and index are None when the parse panics,
\* Some(None) when the separator is absent, Some(Some(v)) when a number was read
from(s) ==
    LET i == Find(s, "^")
        sup == IF i = None THEN Some(None)
               ELSE LET p == parse_u8(SubSeq(s, i[1] + 2, Len(s)))
                    IN IF p = None THEN None ELSE Some(p)
        rem1 == IF i = None THEN s ELSE SubSeq(s, 1, i[1])
        j == Find(rem1, "_")
        index == IF j = None THEN Some(None)
                 ELSE LET p == parse_i8(SubSeq(rem1, j[1] + 2, Len(rem1)))
                      IN IF p = None THEN None ELSE Some(p)
        rem2 == IF j = None THEN rem1 ELSE SubSeq(rem1, 1, j[1])
    IN IF sup = None \/ index = None THEN ParsePanic
       ELSE Parsed(Handle(rem2, index[1], sup[1]))

(***************************************************************************)
(* SpecHandle: a Handle is written as text, the text is read back, and the *)
(* Handle read is written again.  The names include the empty name, names  *)
(* with a minus sign or digits, and two names Handle::new would reject     *)
(* (the fields are public, so such a Handle can exist).  Every index runs  *)
(* with the extreme sups and every sup with the extreme indices.           *)
(***************************************************************************)
HandleNames ==
    { << >>, << "G" >>, << "A", "a" >>, << "x", "-", "1" >>, << "+", "7" >>,
      << "a", "_", "b" >>, << "a", "^", "2" >> }

EdgeIndices == {None, Some(I8Min), Some(I8Max)}
EdgeSups == {None, Some(0), Some(U8Max)}
AllIndices == {None} \cup {Some(v) : v \in I8Min..I8Max}
AllSups == {None} \cup {Some(v) : v \in 0..U8Max}

HandleInputs ==
    {Handle(n, i, s) : n \in HandleNames, i \in AllIndices, s \in EdgeSups}
        \cup {Handle(n, i, s) : n \in HandleNames, i \in EdgeIndices, s \in AllSups}

InitHandle ==
    /\ InitMachine
    /\ conv \in {[stage |-> "handle", h |-> h] : h \in HandleInputs}
    /\ busio = NoBus

\* h.to_string()
to_string ==
    /\ conv.stage = "handle"
    /\ conv' = [stage |-> "text", h |-> conv.h, text |-> fmt(conv.h)]
    /\ UNCHANGED << subcircuitVars, circuitVars, bcall, busio, machine, work >>

\* Handle::from(text)
FromStr ==
    /\ conv.stage = "text"
    /\ conv' = [stage |-> IF from(conv.text).panic THEN "panicked" ELSE "parsed",
                h |-> conv.h, text |-> conv.text, parsed |-> from(conv.text)]
    /\ UNCHANGED << subcircuitVars, circuitVars, bcall, busio, machine, work >>

\* the parsed Handle's to_string()
to_string_again ==
    /\ conv.stage = "parsed"
    /\ conv' = [stage |-> "text2", h |-> conv.h, text |-> conv.text,
                parsed |-> conv.parsed, text2 |-> fmt(conv.parsed.handle)]
    /\ UNCHANGED << subcircuitVars, circuitVars, bcall, busio, machine, work >>

NextHandle == to_string \/ FromStr \/ to_string_again

SpecHandle == InitHandle /\ [][NextHandle]_vars

(***************************************************************************)
(* C19: for every Handle whose name contains neither '_' nor '^', with any *)
(* optional index of an i8 and any optional sup of a u8, reading the text  *)
(* form back does not panic and gives a Handle equal in name, index and    *)
(* sup, and the text form of the Handle read is the same text.             *)
(***************************************************************************)
\* the name holds no separator
PlainName(h) == \A i \in 1..Len(h.name) : h.name[i] \notin {"_", "^"}

C19_HandleTextRoundTrip ==
    PlainName(conv.h) =>
        /\ conv.stage # "panicked"
        /\ conv.stage \in {"parsed", "text2"} =>
               /\ conv.parsed.handle.name = conv.h.name
               /\ conv.parsed.handle.index = conv.h.index
               /\ conv.parsed.handle.sup = conv.h.sup
        /\ conv.stage = "text2" => conv.text2 = conv.text

\* a Handle with a name, the least index and the greatest sup went round
C19_Witness ==
    /\ conv.stage = "text2"
    /\ PlainName(conv.h)
    /\ conv.h.name = << "x", "-", "1" >>
    /\ conv.h.index = Some(I8Min)
    /\ conv.h.sup = Some(U8Max)
    /\ conv.text = << "x", "-", "1", "_", "-", "1", "2", "8", "^", "2", "5", "5" >>

(***************************************************************************)
(* Bus read-back: inspect_bus(bus) -> i32                                  *)
(*                                                                         *)
(* common.rs calls an inspect_bus that returns an i32; the source at hand  *)
(* has only the inspect_bus of circuit.rs, which logs the bits.  The       *)
(* operators below follow the description of the returning inspect_bus:    *)
(* bit index is set for every matching Handle whose traced state is true,  *)
(* and the result is (raw << (31 - max_index)) >> (31 - max_index) with an *)
(* arithmetic shift.  An i32 is the set of the positions of its one bits,  *)
(* so that every shift is done at the width of 32 bits.                    *)
(***************************************************************************)
I32Bits == 32
SignBit == I32Bits - 1
BitPositions == 0..SignBit

\* the sum of 2^i over the positions i of a set
RECURSIVE SumPow2(_)
SumPow2(S) ==
    IF S = {} THEN 0
    ELSE LET i == CHOOSE x \in S : TRUE IN 2 ^ i + SumPow2(S \ {i})

\* the number an i32 with these one bits is (two's complement)
I32Value(bits) ==
    IF SignBit \in bits
    THEN (SumPow2(bits \ {SignBit}) - SumPow2(BitPositions \ {SignBit})) - 1
    ELSE SumPow2(bits)

\* i32 << s
Shl(bits, s) == {i + s : i \in bits} \cap BitPositions

\* i32 >> s, arithmetic: the sign bit fills the top
AShr(bits, s) ==
    {i \in BitPositions : IF i + s <= SignBit THEN i + s \in bits ELSE SignBit \in bits}

\* u32 >> s, logical: zeros fill the top
LShr(bits, s) == {i \in BitPositions : i + s \in bits}

\* the largest index of the handles of a bus
MaxIndex(indices) == CHOOSE k \in indices : \A i \in indices : i <= k

BusOk(ret) == [panic |-> FALSE, ret |-> ret]
BusPanic == [panic |-> TRUE]

\* inspect_bus with a slip: the shift back is a logical one
inspect_bus_no_sign(indices, traced) ==
    IF indices = {} THEN BusPanic
    ELSE LET raw == {i \in indices : i \in traced}
             max_index == MaxIndex(indices)
         IN BusOk(I32Value(LShr(Shl(raw, SignBit - max_index), SignBit - max_index)))

\* inspect_bus(bus) -> i32.  indices: the indices of the Handles matching the
\* bus; traced: those of them whose traced state is true
inspect_bus(indices, traced) ==
    IF indices = {} THEN BusPanic
    ELSE LET raw == {i \in indices : i \in traced}
             max_index == MaxIndex(indices)
         IN BusOk(I32Value(AShr(Shl(raw, SignBit - max_index), SignBit - max_index)))

(***************************************************************************)
(* SpecBus: a machine with one bus; every step leaves some of the bus's    *)
(* traced nodes true, and the bus is inspected between steps.  The buses   *)
(* are Aa_0..Aa_7 of gate_test, buses of one and of two bits, buses whose  *)
(* least index is not 0, buses that reach bit 31, and the bus no Handle    *)
(* matches.                                                                *)
(***************************************************************************)
Buses ==
    { {}, {0}, {0, 1}, {5}, {2, 3}, 0..7, {0, 1, 2, 30}, {0, SignBit},
      {29, 30, SignBit} }

InitBus ==
    /\ InitMachine
    /\ conv = NoConv
    /\ busio \in {[stage |-> "built", indices |-> I, traced |-> {}, steps |-> 0] : I \in Buses}

\* step(): traces[n] = reachable[n] for every traced node, whatever was reached
BusStep ==
    /\ busio.stage \in {"built", "stepped", "inspected"}
    /\ \E T \in SUBSET busio.indices :
           busio' = [stage |-> "stepped", indices |-> busio.indices, traced |-> T,
                     steps |-> 1]
    /\ UNCHANGED << subcircuitVars, circuitVars, bcall, conv, machine, work >>

\* inspect_bus(&bus)
InspectBus ==
    /\ busio.stage \in {"built", "stepped"}
    /\ LET r == inspect_bus(busio.indices, busio.traced)
       IN busio' = IF r.panic
                   THEN [stage |-> "panicked", indices |-> busio.indices,
                         traced |-> busio.traced, steps |-> busio.steps]
                   ELSE [stage |-> "inspected", indices |-> busio.indices,
                         traced |-> busio.traced, steps |-> busio.steps, ret |-> r.ret]
    /\ UNCHANGED << subcircuitVars, circuitVars, bcall, conv, machine, work >>

NextBus == BusStep \/ InspectBus

SpecBus == InitBus /\ [][NextBus]_vars

(***************************************************************************)
(* C20: for a bus whose largest handle index is k, the value inspect_bus   *)
(* returns after a step lies in [-(2^k), 2^k - 1], and it is the traced    *)
(* bits of the bus read as a two's-complement number of k+1 bits: the sum  *)
(* of 2^i over the true bits below k, less 2^k when bit k is true.         *)
(***************************************************************************)
\* the traced bits as a number of k+1 bits, bit k being the sign
TwosComplement(traced, k) ==
    IF k \in traced
    THEN (SumPow2(traced \ {k}) - SumPow2(0..(k - 1))) - 1
    ELSE SumPow2(traced)

\* -(2^k) <= v <= 2^k - 1, written with 2^k - 1 = the sum of the powers below k
InSignedRange(v, k) ==
    /\ (0 - SumPow2(0..(k - 1))) - 1 <= v
    /\ v <= SumPow2(0..(k - 1))

C20_InspectBusIsSignedValue ==
    (busio.stage = "inspected" /\ busio.steps > 0) =>
        LET k == MaxIndex(busio.indices)
        IN /\ InSignedRange(busio.ret, k)
           /\ busio.ret = TwosComplement(busio.traced, k)

\* the bus Aa_0..Aa_7 of gate_test was read as -123 after a step
C20_Witness ==
    /\ busio.stage = "inspected"
    /\ busio.steps > 0
    /\ busio.indices = 0..7
    /\ busio.traced = {0, 2, 7}
    /\ busio.ret = 0 - 123

(***************************************************************************)
(* The tests of circuit/subcircuit.rs: each builds a sub-circuit with a    *)
(* fixed sequence of builder calls, finalizes it and steps it with the     *)
(* tests' own Subcircuit::step.  A text passed where a Handle is wanted    *)
(* goes through From<&str>.                                                *)
(***************************************************************************)
\* the steps a test machine is run for
MaxTicks == 16

\* handle.into() of a text
into(s) == from(s).handle

\* let x = v; body(x): v is evaluated once
Bind(v, body(_)) == CHOOSE out \in {body(x) : x \in {v}} : TRUE

\* the next builder call of a test: nothing more is called after a panic
AndThen(r, call(_)) == Bind(r, LAMBDA x : IF x.panic THEN x ELSE call(x.cb))

\* tests: impl Subcircuit { pub fn step(&mut self) }
subcircuit_step(s) ==
    LET started == start_step(s)
    IN end_step(IF HG \in DOMAIN started.name_to_node
                THEN update(started, HG).sc
                ELSE started)

\* sc.step() called n times
RECURSIVE Steps(_, _)
Steps(s, n) == IF n = 0 THEN s ELSE subcircuit_step(Steps(s, n - 1))

\* tests::one_relay, up to finalize; the switch is the first one, next_switch_id() = 0
one_relay ==
    LET c1 == add_coil(CBuilderNew, into(<< "A", "b", "0" >>), Named(into(<< "G" >>)))
        c2 == AndThen(c1, LAMBDA b : add_switch(b, into(<< "a", "b", "0" >>),
                                       << Named(into(<< "G" >>)), Named(into(<< "n", "o" >>)),
                                          Named(into(<< "n", "c" >>)) >>))
        c3 == AndThen(c2, LAMBDA b : expose_node(b, Hno))
    IN AndThen(c3, LAMBDA b : expose_node(b, Hnc))

\* the one relay in the words of the scenario: the Handles Ab_0 and ab_0 carry an
\* index, and the coil and the pole are wired to the node G by its id
one_relay_indexed ==
    Bind(node(CBuilderNew, Named(into(<< "G" >>))), LAMBDA g :
        LET c1 == AndThen(g, LAMBDA b : add_coil(b, into(<< "A", "b", "_", "0" >>),
                                                 Wire(g.ret)))
            c2 == AndThen(c1, LAMBDA b : add_switch(b, into(<< "a", "b", "_", "0" >>),
                                           << Wire(g.ret), Named(into(<< "n", "o" >>)),
                                              Named(into(<< "n", "c" >>)) >>))
            c3 == AndThen(c2, LAMBDA b : expose_node(b, Hno))
        IN AndThen(c3, LAMBDA b : expose_node(b, Hnc)))

Hcoil == Handle(<< "c", "o", "i", "l" >>, None, None)

\* tests::oscillating_relay, up to finalize; the switch is the first one
oscillating_relay ==
    Bind(add_switch(CBuilderNew, into(<< "x", "y", "-", "1", "0" >>),
                    << Named(into(<< "G" >>)), New, Named(into(<< "c", "o", "i", "l" >>)) >>),
         LAMBDA c1 :
             LET c2 == AndThen(c1, LAMBDA b : add_coil(b, into(<< "X", "y", "-", "1", "0" >>),
                                                       Wire(c1.ret[3])))
             IN AndThen(c2, LAMBDA b : expose_node(b, Hcoil)))

\* format!("step{}", i), format!("S{}", i), format!("s{}", i)
StepName(i) == << "s", "t", "e", "p" >> \o FormatNat(i)
Hstep(i) == Handle(StepName(i), None, None)
Hstep123 == Handle(<< "s", "t", "e", "p", "1", "2", "3" >>, None, None)

\* step_subcircuit: for i in 1..=5 { add_coil(S<i>, step<i>); expose_node(step<i>) }
RECURSIVE StepCoils(_, _)
StepCoils(r, i) ==
    IF i > 5 THEN r
    ELSE LET c == AndThen(r, LAMBDA b : add_coil(b, into(<< "S" >> \o FormatNat(i)),
                                                 Named(into(StepName(i)))))
         IN StepCoils(AndThen(c, LAMBDA b : expose_node(b, Hstep(i))), i + 1)

\* the add_switch calls of step_subcircuit, in order: name and (pole, no, nc)
StepSwitches ==
    LET G == Named(into(<< "G" >>))
        S(i) == Named(into(<< "S" >> \o FormatNat(i)))
        s(i) == into(<< "s" >> \o FormatNat(i))
        init == into(<< "i", "n", "i", "t" >>)
        step123 == Named(into(<< "s", "t", "e", "p", "1", "2", "3" >>))
    IN << << init, << G, New, S(1) >> >>,
          << s(1), << G, S(2), New >> >>,
          << s(2), << G, S(3), New >> >>,
          << s(3), << G, S(4), New >> >>,
          << s(4), << G, S(5), New >> >>,
          << s(5), << G, S(1), New >> >>,
          << init, << G, New, step123 >> >>,
          << s(5), << G, step123, New >> >>,
          << s(1), << G, step123, New >> >>,
          << s(2), << G, step123, New >> >> >>

RECURSIVE AddSwitches(_, _, _)
AddSwitches(r, list, i) ==
    IF i > Len(list) THEN r
    ELSE AddSwitches(AndThen(r, LAMBDA b : add_switch(b, list[i][1], list[i][2])),
                     list, i + 1)

\* tests::step_subcircuit, up to finalize
step_subcircuit ==
    LET c1 == add_coil(CBuilderNew, into(<< "I", "n", "i", "t" >>), Named(into(<< "G" >>)))
        c2 == StepCoils(c1, 1)
        c3 == AddSwitches(c2, StepSwitches, 1)
    IN AndThen(c3, LAMBDA b : expose_node(b, Hstep123))

\* the stages of chain_alternating_relays
Stages == 5

Ha(i) == Handle(<< "a" >> \o FormatNat(i), None, None)
Hb(i) == Handle(<< "b" >> \o FormatNat(i), None, None)

\* CBuilder::chain over 0..5 with the closure of chain_alternating_relays; the
\* builder the closure borrows is carried along with [left_a, left_b]
RECURSIVE chain(_, _)
chain(curr, idx) ==
    Bind(curr, LAMBDA cur :
        IF idx >= Stages \/ cur.r.panic THEN cur
        ELSE
        Bind(AndThen(add_coil(cur.r.cb, into(<< "B", "b" >> \o FormatNat(idx)),
                              Wire(cur.left_a)),
                     LAMBDA b : node(b, Named(into(<< "a" >> \o FormatNat(idx))))),
             LAMBDA right_a :
        Bind(AndThen(right_a, LAMBDA b : node(b, Named(into(<< "b" >> \o FormatNat(idx))))),
             LAMBDA right_b :
            LET c2 == AndThen(right_b, LAMBDA b : expose_node(b, Ha(idx)))
                c3 == AndThen(c2, LAMBDA b : expose_node(b, Hb(idx)))
                c4 == AndThen(c3, LAMBDA b :
                          add_switch(b, into(<< "a", "a" >> \o FormatNat(idx)),
                                     << Wire(cur.left_a), Wire(right_a.ret), New >>))
                c5 == AndThen(c4, LAMBDA b :
                          add_switch(b, into(<< "b", "b" >> \o FormatNat(idx)),
                                     << Wire(cur.left_b), Wire(right_b.ret), New >>))
                c6 == AndThen(c5, LAMBDA b :
                          add_coil(b, into(<< "A", "a" >> \o FormatNat(idx)),
                                   Wire(right_b.ret)))
            IN chain([r |-> c6, left_a |-> right_a.ret, left_b |-> right_b.ret],
                     idx + 1))))

\* tests::chain_alternating_relays, up to finalize; the two assert_eq! on the last
\* nodes are the panic of the result
chain_alternating_relays ==
    Bind(node(CBuilderNew, Named(into(<< "G" >>))), LAMBDA g :
    Bind(chain([r |-> g, left_a |-> g.ret, left_b |-> g.ret], 0), LAMBDA lasts :
    Bind(AndThen(lasts.r, LAMBDA b : node(b, Named(into(<< "a", "4" >>)))), LAMBDA a4 :
    Bind(AndThen(a4, LAMBDA b : node(b, Named(into(<< "b", "4" >>)))), LAMBDA b4 :
        IF b4.panic \/ lasts.left_a # a4.ret \/ lasts.left_b # b4.ret
        THEN Panic(b4.cb) ELSE b4))))

\* the tests, by name
Tests ==
    [one_relay |-> one_relay, one_relay_indexed |-> one_relay_indexed,
     oscillating_relay |-> oscillating_relay, step_subcircuit |-> step_subcircuit,
     chain_alternating_relays |-> chain_alternating_relays]

\* a test makes its builder calls
BuildTest ==
    /\ pc = "building"
    /\ cb = CBuilderNew
    /\ \E t \in DOMAIN Tests :
           \E r \in {Tests[t]} :
               /\ cb' = r.cb
               /\ pc' = IF r.panic THEN "abort" ELSE "building"
    /\ UNCHANGED << sc, seeds, conn0, prev_pos, nsteps >>
    /\ UNCHANGED << circuitVars, callVars >>

\* a test calls sc.step()
TestStep ==
    /\ pc = "idle"
    /\ nsteps < MaxTicks
    /\ sc' = subcircuit_step(sc)
    /\ nsteps' = nsteps + 1
    /\ prev_pos' = sc.switch_positions
    /\ UNCHANGED << cb, pc, seeds, conn0 >>
    /\ UNCHANGED << circuitVars, callVars >>

\* tests::empty finalizes the new builder; the other tests finalize what they built
NextTests == BuildTest \/ Finalize \/ TestStep

SpecTests == Init /\ [][NextTests]_vars

(***************************************************************************)
(* C24: the one relay of tests::one_relay (a coil at G, its switch with    *)
(* the pole at G).  Before any step the switch is inactive and no and nc   *)
(* are low; after the first step the switch is active, no is low and nc is *)
(* high; after the second step and after every later one the switch is     *)
(* active, no is high and nc is low: from the second step on a step leaves *)
(* the sub-circuit exactly as it was.                                      *)
(***************************************************************************)
\* the test's machine is between two calls of step
Running(test) == cb = test.cb /\ pc = "idle"

C24_OneRelaySettlesInTwoSteps ==
    Running(one_relay) =>
        /\ nsteps = 0 => ~is_active(sc, 0) /\ ~is_high(sc, Hno) /\ ~is_high(sc, Hnc)
        /\ nsteps = 1 => is_active(sc, 0) /\ ~is_high(sc, Hno) /\ is_high(sc, Hnc)
        /\ nsteps >= 2 =>
               /\ is_active(sc, 0) /\ is_high(sc, Hno) /\ ~is_high(sc, Hnc)
               /\ subcircuit_step(sc) = sc

\* the relay was stepped five times and holds
C24_Witness ==
    /\ Running(one_relay)
    /\ nsteps = 5
    /\ is_active(sc, 0)
    /\ is_high(sc, Hno)

(***************************************************************************)
(* C25: the one relay as the scenario words it, with add_coil(Ab_0,        *)
(* Wire(G)) and add_switch(ab_0, (G, no, nc)).  As stated: after step 1    *)
(* the switch is inactive with no and nc false, after step 2 it is active  *)
(* with no false and nc true, after step 3 no is true and nc false.        *)
(***************************************************************************)
C25_OneRelayAsStated ==
    Running(one_relay_indexed) =>
        /\ nsteps = 1 => ~is_active(sc, 0) /\ ~is_high(sc, Hno) /\ ~is_high(sc, Hnc)
        /\ nsteps = 2 => is_active(sc, 0) /\ ~is_high(sc, Hno) /\ is_high(sc, Hnc)
        /\ nsteps = 3 => is_high(sc, Hno) /\ ~is_high(sc, Hnc)

(***************************************************************************)
(* C25, amended: the readings come one step earlier.  After finalize and   *)
(* before any step the switch is inactive with no and nc false; after      *)
(* step 1 it is active with no false and nc true; after step 2 it is       *)
(* active with no true and nc false, and so after step 3.                  *)
(***************************************************************************)
C25_OneRelayOneStepEarlier ==
    Running(one_relay_indexed) =>
        /\ nsteps = 0 => ~is_active(sc, 0) /\ ~is_high(sc, Hno) /\ ~is_high(sc, Hnc)
        /\ nsteps = 1 => is_active(sc, 0) /\ ~is_high(sc, Hno) /\ is_high(sc, Hnc)
        /\ nsteps \in {2, 3} => is_active(sc, 0) /\ is_high(sc, Hno) /\ ~is_high(sc, Hnc)

\* the first step of the scenario's relay has ended: the switch is active, nc is high
C25_Witness ==
    /\ Running(one_relay_indexed)
    /\ nsteps = 1
    /\ is_active(sc, 0)
    /\ is_high(sc, Hnc)

(***************************************************************************)
(* C26: the oscillator of tests::oscillating_relay (a switch with the pole *)
(* at G whose NC terminal feeds its own coil).  After every odd-numbered   *)
(* step the switch is active and the coil node was high in that step;      *)
(* after every even-numbered step the switch is inactive and the coil node *)
(* was low.  Two steps bring the sub-circuit back to exactly the state it  *)
(* had and one step never does: the period is 2 and it never settles.      *)
(***************************************************************************)
C26_OscillatorHasPeriodTwo ==
    (Running(oscillating_relay) /\ nsteps >= 1) =>
        /\ nsteps % 2 = 1 => is_active(sc, 0) /\ is_high(sc, Hcoil)
        /\ nsteps % 2 = 0 => ~is_active(sc, 0) /\ ~is_high(sc, Hcoil)
        /\ subcircuit_step(subcircuit_step(sc)) = sc
        /\ subcircuit_step(sc) # sc

\* the oscillator after its third and after its fourth step
C26_Witness ==
    /\ Running(oscillating_relay)
    /\ \/ nsteps = 3 /\ is_active(sc, 0) /\ is_high(sc, Hcoil)
       \/ nsteps = 4 /\ ~is_active(sc, 0) /\ ~is_high(sc, Hcoil)

(***************************************************************************)
(* C27: the ring sequencer of tests::step_subcircuit.  Before any step no  *)
(* stepN is high; after the k-th step, k >= 1, exactly one stepN is high,  *)
(* the one with N = ((k - 1) mod 5) + 1; step123 is high after a step      *)
(* exactly when that N is 1, 2 or 3.  From the second step on five steps   *)
(* bring the sub-circuit back to exactly the state it had, so the cycle    *)
(* 1, 2, 3, 4, 5, 1, ... goes on for ever.                                 *)
(***************************************************************************)
\* the stage that is high after the k-th step
Stage(k) == ((k - 1) % 5) + 1

C27_RingSequencerCycles ==
    Running(step_subcircuit) =>
        /\ nsteps = 0 => \A N \in 1..5 : ~is_high(sc, Hstep(N))
        /\ nsteps >= 1 =>
               /\ \A N \in 1..5 : is_high(sc, Hstep(N)) <=> N = Stage(nsteps)
               /\ is_high(sc, Hstep123) <=> Stage(nsteps) \in {1, 2, 3}
        /\ nsteps >= 2 => Steps(sc, 5) = sc

\* the ring came round: after the sixth step stage 1 is high again, after the ninth
\* stage 4 is high and step123 is low
C27_Witness ==
    /\ Running(step_subcircuit)
    /\ \/ nsteps = 6 /\ is_high(sc, Hstep(1)) /\ is_high(sc, Hstep123)
       \/ nsteps = 9 /\ is_high(sc, Hstep(4)) /\ ~is_high(sc, Hstep123)

(***************************************************************************)
(* C28: the chained alternating relays of tests::chain_alternating_relays  *)
(* (five stages).  After step 1 no a_i and no b_i is high; for i in 0..4,  *)
(* after step 2i+2 exactly a_0..a_(i-1) and b_0..b_i are high and after    *)
(* step 2i+3 exactly a_0..a_i and b_0..b_i are high; at all times the high *)
(* nodes of each bus are a prefix a_0..a_(n-1), b_0..b_(m-1).              *)
(***************************************************************************)
\* the stages whose a node, whose b node is high
HighA == {i \in 0..(Stages - 1) : is_high(sc, Ha(i))}
HighB == {i \in 0..(Stages - 1) : is_high(sc, Hb(i))}

C28_ChainFillsStageByStage ==
    Running(chain_alternating_relays) =>
        /\ nsteps = 1 => HighA = {} /\ HighB = {}
        /\ \A i \in 0..(Stages - 1) :
               /\ nsteps = 2 * i + 2 => HighA = 0..(i - 1) /\ HighB = 0..i
               /\ nsteps = 2 * i + 3 => HighA = 0..i /\ HighB = 0..i
        /\ \E n \in 0..Stages : HighA = 0..(n - 1)
        /\ \E m \in 0..Stages : HighB = 0..(m - 1)

\* the chain after its sixth step: a_0, a_1 and b_0, b_1, b_2 are high
C28_Witness ==
    /\ Running(chain_alternating_relays)
    /\ nsteps = 6
    /\ HighA = {0, 1}
    /\ HighB = {0, 1, 2}

(***************************************************************************)
(* C29: the chained alternating relays as the scenario words them.  As     *)
(* stated: for each stage index i, after step 2i+1 the numbers of high     *)
(* nodes on the a bus and on the b bus differ by one, and after step 2i+2  *)
(* they are equal.                                                         *)
(***************************************************************************)
\* the numbers of high a and b nodes differ by one
DifferByOne ==
    \/ Cardinality(HighA) = Cardinality(HighB) + 1
    \/ Cardinality(HighB) = Cardinality(HighA) + 1

C29_ChainMarksAsStated ==
    Running(chain_alternating_relays) =>
        \A i \in 0..(Stages - 1) :
            /\ nsteps = 2 * i + 1 => DifferByOne
            /\ nsteps = 2 * i + 2 => Cardinality(HighA) = Cardinality(HighB)

(***************************************************************************)
(* C29, amended: the parities are the other way round.  For each stage     *)
(* index i, after step 2i+1 the numbers of high nodes on the a bus and on  *)
(* the b bus are equal (both i), and after step 2i+2 the b bus is one      *)
(* ahead (i on a, i+1 on b).                                               *)
(***************************************************************************)
C29_ChainMarksAlternate ==
    Running(chain_alternating_relays) =>
        \A i \in 0..(Stages - 1) :
            /\ nsteps = 2 * i + 1 =>
                   Cardinality(HighA) = i /\ Cardinality(HighB) = i
            /\ nsteps = 2 * i + 2 =>
                   Cardinality(HighA) = i /\ Cardinality(HighB) = i + 1

\* the chain after its eighth step: three a nodes and four b nodes are high
C29_Witness ==
    /\ Running(chain_alternating_relays)
    /\ nsteps = 8
    /\ Cardinality(HighA) = 3
    /\ Cardinality(HighB) = 4

(***************************************************************************)
(* C30: step on a machine finalized with no components (and therefore no   *)
(* G node) completes without failure and leaves all state empty; in        *)
(* general a seed naming a node the machine does not know is skipped and   *)
(* propagation continues with the remaining seeds.                         *)
(***************************************************************************)
\* tests::empty: CBuilder::new().finalize(), then step
empty == finalize(CBuilderNew)

\* the seeds of the latest step the Circuit does not know
UnknownSeeds == last.seeds \ DOMAIN circuit.nodes

HGa == Handle(<< "G", "a" >>, None, None)

\* Bus::new
Bus(name, sup) == [name |-> name, sup |-> sup]

\* Bus::index
index(bus, i) == Handle(bus.name, Some(i), bus.sup)

\* bus!("Ab"), bus!("Aa")
BusAb == Bus(<< "A", "b" >>, None)
BusAa == Bus(<< "A", "a" >>, None)

\* the bits of an i8
I8Bits == 8
\* 0..=7
Indices == [i \in 1..I8Bits |-> i - 1]

\* (k >> index) & 1 != 0 for an i8 k and 0 <= index < 8
Bit(k, i) == ((k + 2 ^ I8Bits) \div (2 ^ i)) % 2 = 1

\* an i8 widened to i32, as the one bits of the i32
I32From(k) == {i \in BitPositions : IF i < I8Bits THEN Bit(k, i) ELSE k < 0}

\* label(Handle | text): get-or-create by name
label(b, name) == node(b, Named(name))

\* gate_index with a slip: the coil hangs on the gate switch's nc, not on its no
gate_index_on_nc(b, from_bus, coil, to_bus, s5, i) ==
    Bind(add_switch(b, coil_to_switch_name(index(from_bus, i)), << Wire(s5), New, New >>),
         LAMBDA s1 :
    Bind(AndThen(s1, LAMBDA b1 : add_coil(b1, index(to_bus, i), New)), LAMBDA c1 :
        \* from_no is s1.ret[2], coil_node is c1.ret
        AndThen(c1, LAMBDA b2 : add_switch(b2, coil_to_switch_name(coil),
                                           << Wire(s1.ret[2]), New, Wire(c1.ret) >>))))

\* gate_index with a slip: the second switch is thrown by the bus coil too, the gate
\* coil throws nothing
gate_index_ungated(b, from_bus, coil, to_bus, s5, i) ==
    Bind(add_switch(b, coil_to_switch_name(index(from_bus, i)), << Wire(s5), New, New >>),
         LAMBDA s1 :
    Bind(AndThen(s1, LAMBDA b1 : add_coil(b1, index(to_bus, i), New)), LAMBDA c1 :
        \* from_no is s1.ret[2], coil_node is c1.ret
        AndThen(c1, LAMBDA b2 : add_switch(b2, coil_to_switch_name(index(from_bus, i)),
                                           << Wire(s1.ret[2]), Wire(c1.ret), New >>))))

\* gate: the body of the loop, for one index
gate_index(b, from_bus, coil, to_bus, s5, i) ==
    Bind(add_switch(b, coil_to_switch_name(index(from_bus, i)), << Wire(s5), New, New >>),
         LAMBDA s1 :
    Bind(AndThen(s1, LAMBDA b1 : add_coil(b1, index(to_bus, i), New)), LAMBDA c1 :
        \* from_no is s1.ret[2], coil_node is c1.ret
        AndThen(c1, LAMBDA b2 : add_switch(b2, coil_to_switch_name(coil),
                                           << Wire(s1.ret[2]), Wire(c1.ret), New >>))))

\* gate: for index in indices
RECURSIVE gate_loop(_, _, _, _, _, _, _)
gate_loop(r, from_bus, coil, to_bus, s5, indices, n) ==
    Bind(r, LAMBDA x :
        IF n > Len(indices) \/ x.panic THEN x
        ELSE gate_loop(gate_index(x.cb, from_bus, coil, to_bus, s5, indices[n]),
                       from_bus, coil, to_bus, s5, indices, n + 1))

\* common::gate, the closure applied to the builder b
gate(b, from_bus, coil, to_bus, indices) ==
    Bind(AndThen(add_coil(b, coil, New),
                 LAMBDA b1 : label(b1, into(<< "S", "_", "5" >>))),
         LAMBDA l : gate_loop(l, from_bus, coil, to_bus, l.ret, indices, 1))

\* gate_const_index with a slip: the bit of k is not looked at
gate_const_index_every_bit(b, k, coil, to_bus, s5, i) ==
    IF ~(i >= 0 /\ i < I8Bits) THEN Panic(b)
    ELSE Bind(add_coil(b, index(to_bus, i), New), LAMBDA c1 :
             \* coil_node is c1.ret
             AndThen(c1, LAMBDA b1 : add_switch(b1, coil_to_switch_name(coil),
                                                << Wire(s5), Wire(c1.ret), New >>)))

\* gate_const: the body of the loop, for one index
gate_const_index(b, k, coil, to_bus, s5, i) ==
    IF ~(i >= 0 /\ i < I8Bits) THEN Panic(b)
    ELSE IF Bit(k, i)
    THEN Bind(add_coil(b, index(to_bus, i), New), LAMBDA c1 :
             \* coil_node is c1.ret
             AndThen(c1, LAMBDA b1 : add_switch(b1, coil_to_switch_name(coil),
                                                << Wire(s5), Wire(c1.ret), New >>)))
    ELSE Ok(b, 0)

\* gate_const: for index in indices
RECURSIVE gate_const_loop(_, _, _, _, _, _, _)
gate_const_loop(r, k, coil, to_bus, s5, indices, n) ==
    Bind(r, LAMBDA x :
        IF n > Len(indices) \/ x.panic THEN x
        ELSE gate_const_loop(gate_const_index(x.cb, k, coil, to_bus, s5, indices[n]),
                             k, coil, to_bus, s5, indices, n + 1))

\* common::gate_const, the closure applied to the builder b
gate_const(b, k, coil, to_bus, indices) ==
    Bind(AndThen(add_coil(b, coil, New),
                 LAMBDA b1 : label(b1, into(<< "S", "_", "5" >>))),
         LAMBDA l : gate_const_loop(l, k, coil, to_bus, l.ret, indices, 1))

\* a builder with the nodes traced so far
Traced(r, traced) == [cb |-> r.cb, traced |-> traced, panic |-> r.panic]

\* gate_test: the second closure, coils Ab_i on new nodes, Ab_i and Aa_i traced
RECURSIVE gate_test_traces(_, _)
gate_test_traces(t, n) ==
    Bind(t, LAMBDA x :
        IF n > Len(Indices) \/ x.panic THEN x
        ELSE Bind(add_coil(x.cb, index(BusAb, Indices[n]), New), LAMBDA ab :
             Bind(AndThen(ab, LAMBDA b1 : label(b1, index(BusAa, Indices[n]))), LAMBDA aa :
                 gate_test_traces(Traced(aa, x.traced \cup {ab.ret, aa.ret}), n + 1))))

\* gate_const_test: the second closure, Aa_i labelled and traced
RECURSIVE gate_const_test_traces(_, _)
gate_const_test_traces(t, n) ==
    Bind(t, LAMBDA x :
        IF n > Len(Indices) \/ x.panic THEN x
        ELSE Bind(label(x.cb, index(BusAa, Indices[n])), LAMBDA aa :
                 gate_const_test_traces(Traced(aa, x.traced \cup {aa.ret}), n + 1)))

\* finalize() of the flat builder: the graph, the names, the traces, no sources
MachineFrom(t) ==
    [sub |-> finalize(t.cb), names |-> t.cb.node_aliases, sources |-> {},
     traces |-> [n \in t.traced |-> FALSE]]

\* gate_test: CircuitBuilder::new().add_subcircuit(gate(..)).add_subcircuit(..).finalize()
gate_test ==
    gate_test_traces(Traced(gate(CBuilderNew, BusAb, HGa, BusAa, Indices), {}), 1)

\* gate_const_test, for the constant k
gate_const_test(k) ==
    gate_const_test_traces(Traced(gate_const(CBuilderNew, k, HGa, BusAa, Indices), {}), 1)

\* the Handles a bus matches
BusHandles(m, bus) ==
    {h \in DOMAIN m.names : h.name = bus.name /\ h.sup = bus.sup /\ h.index # None}

\* set(&handle): the node named by handle joins the sources; unknown: warning, no-op
machine_set(m, handle) ==
    IF handle \in DOMAIN m.names
    THEN [m EXCEPT !.sources = @ \cup {m.names[handle]}]
    ELSE m

\* set_bus(&bus, k): the matching Handles whose bit of k is set join the sources
set_bus(m, bus, k) ==
    [m EXCEPT !.sources =
        @ \cup {m.names[h] : h \in {x \in BusHandles(m, bus) : x.index[1] \in k}}]

\* a set as a worklist
RECURSIVE Worklist(_)
Worklist(S) ==
    IF S = {} THEN << >>
    ELSE LET n == CHOOSE x \in S : TRUE IN Append(Worklist(S \ {n}), n)

\* step(): propagation from the sources and G with the connections in effect, the
\* traces recorded, the sources cleared, then the commit
machine_step(m) ==
    LET seeds_now == m.sources \cup (IF HG \in DOMAIN m.names THEN {m.names[HG]} ELSE {})
        started == start_step(m.sub)
        r == UpdateLoop(started, Worklist(seeds_now), started.node_states,
                        started.next_switch_positions, << >>)
    IN [m EXCEPT !.sub = end_step([started EXCEPT !.node_states = r.visited,
                                                  !.next_switch_positions = r.next]),
                 !.traces = [n \in DOMAIN m.traces |-> r.visited[n + 1]],
                 !.sources = {}]

\* inspect_bus(&bus) on the machine: the indices of the matching Handles and those
\* of them whose traced state is true, read by inspect_bus
machine_inspect_bus(m, bus) ==
    LET hs == BusHandles(m, bus)
        high == {h \in hs : m.names[h] \in DOMAIN m.traces /\ m.traces[m.names[h]]}
    IN inspect_bus({h.index[1] : h \in hs}, {h.index[1] : h \in high})

(***************************************************************************)
(* SpecGate: the machine of gate_test or of gate_const_test, driven call   *)
(* by call.  machine holds                                                 *)
(*                                                                         *)
(*   test     "gate" or "gate_const"                                       *)
(*   k        the i8 the test is about: the value the driver hands to      *)
(*            set_bus (gate) or the constant of the gate (gate_const)      *)
(*   sim      the machine                                                  *)
(*   pending  history: the signals set since the latest step               *)
(*   drive    history: the signals that were set for the latest step       *)
(*   before   history: those of the step before it                         *)
(*   earlier  history: Ga and Ab, if set for a step before that            *)
(*   ret      what the latest inspect_bus returned, None after another     *)
(*            call                                                         *)
(*                                                                         *)
(* As in the tests, S_5 is driven in a step of its own, a signal is set    *)
(* once for a step, and the buses are inspected right after a step.        *)
(***************************************************************************)
GateTests == {"gate", "gate_const"}
GateDrives == {{}, {"Ga"}, {"Ab"}, {"Ga", "Ab"}, {"S_5"}}

\* the driver builds the machine of one of the two tests, for some i8 k
BuildMachine ==
    /\ machine.stage = "none"
    /\ \E test \in GateTests, k \in I8Min..I8Max :
           \E t \in {IF test = "gate" THEN gate_test ELSE gate_const_test(k)} :
              machine' = IF t.panic \/ FinalizePanics(t.cb)
                         THEN [stage |-> "panicked", test |-> test, k |-> k]
                         ELSE [stage |-> "run", test |-> test, k |-> k,
                               sim |-> MachineFrom(t), pending |-> {}, drive |-> {},
                               before |-> {}, earlier |-> {}, ret |-> None]
    /\ UNCHANGED << subcircuitVars, circuitVars, bcall, conv, busio, work >>

\* the driver may set signal s now
MaySet(s) ==
    /\ machine.stage = "run"
    /\ s \notin machine.pending
    /\ machine.pending \cup {s} \in GateDrives

\* c.set(&handle!("Ga"))
SetGa ==
    /\ MaySet("Ga")
    /\ machine' = [machine EXCEPT !.sim = machine_set(@, HGa),
                                  !.pending = @ \cup {"Ga"}, !.ret = None]
    /\ UNCHANGED << subcircuitVars, circuitVars, bcall, conv, busio, work >>

\* c.set(&handle!("S", 5))
SetS5 ==
    /\ MaySet("S_5")
    /\ machine' = [machine EXCEPT !.sim = machine_set(@, HS5),
                                  !.pending = @ \cup {"S_5"}, !.ret = None]
    /\ UNCHANGED << subcircuitVars, circuitVars, bcall, conv, busio, work >>

\* c.set_bus(&bus!("Ab"), k)
SetBus ==
    /\ MaySet("Ab")
    /\ machine.test = "gate"
    /\ machine' = [machine EXCEPT !.sim = set_bus(@, BusAb, I32From(machine.k)),
                                  !.pending = @ \cup {"Ab"}, !.ret = None]
    /\ UNCHANGED << subcircuitVars, circuitVars, bcall, conv, busio, work >>

\* c.step()
MachineStep ==
    /\ machine.stage = "run"
    /\ machine' = [machine EXCEPT !.sim = machine_step(@),
                                  !.pending = {},
                                  !.drive = machine.pending,
                                  !.before = machine.drive,
                                  !.earlier = machine.earlier \cup (machine.before \ {"S_5"}),
                                  !.ret = None]
    /\ UNCHANGED << subcircuitVars, circuitVars, bcall, conv, busio, work >>

\* c.inspect_bus(&bus!("Aa")) or c.inspect_bus(&bus!("Ab"))
MachineInspectBus ==
    /\ machine.stage = "run"
    /\ machine.pending = {}
    /\ machine.ret = None
    /\ \E bus \in {BusAa, BusAb} :
           LET r == machine_inspect_bus(machine.sim, bus)
           IN machine' = IF r.panic
                         THEN [stage |-> "panicked", test |-> machine.test,
                               k |-> machine.k]
                         ELSE [machine EXCEPT !.ret = Some([bus |-> bus, value |-> r.ret])]
    /\ UNCHANGED << subcircuitVars, circuitVars, bcall, conv, busio, work >>

NextGate ==
    \/ BuildMachine
    \/ SetGa
    \/ SetS5
    \/ SetBus
    \/ MachineStep
    \/ MachineInspectBus

SpecGate == Init /\ [][NextGate]_vars

\* inspect_bus(bus) has just returned v
Returned(bus, v) == machine.ret = Some([bus |-> bus, value |-> v])

(***************************************************************************)
(* C21: bus round trip.  For a bus with indices 0..7 and every k in        *)
(* -128..127: after set_bus(from, k) and a step, inspect_bus(from) returns *)
(* k; and when every bit of from is routed into the bus to through an      *)
(* identity gate (gate coil and from bus driven in one step, S_5 driven in *)
(* the next), inspect_bus(to) returns k.                                   *)
(***************************************************************************)
\* the gate coil and the from bus were driven in one step, S_5 alone in the next
GateOpened == machine.before = {"Ga", "Ab"} /\ machine.drive = {"S_5"}

C21_BusRoundTrip ==
    (machine.stage = "run" /\ machine.test = "gate" /\ machine.ret # None) =>
        /\ (machine.ret[1].bus = BusAb /\ "Ab" \in machine.drive) =>
               machine.ret[1].value = machine.k
        /\ (machine.ret[1].bus = BusAa /\ GateOpened) =>
               machine.ret[1].value = machine.k

\* -123 went from Ab through the open gate and was read on Aa
C21_Witness ==
    /\ machine.stage = "run"
    /\ machine.test = "gate"
    /\ machine.k = -123
    /\ GateOpened
    /\ Returned(BusAa, -123)

(***************************************************************************)
(* C22: gate of a constant.  For gate_const(k, Ga, Aa, 0..=7) with any     *)
(* 8-bit constant k: set(S_5); step() gives inspect_bus(Aa) = 0, because   *)
(* Ga was not energized in the step before; and then set(Ga); step();      *)
(* set(S_5); step() gives inspect_bus(Aa) = k.                             *)
(***************************************************************************)
\* Ga was driven alone in one step, S_5 alone in the next
ConstGateOpened == machine.before = {"Ga"} /\ machine.drive = {"S_5"}

C22_GateOfAConstant ==
    (machine.stage = "run" /\ machine.test = "gate_const" /\ machine.ret # None
        /\ machine.ret[1].bus = BusAa) =>
        /\ (machine.drive = {"S_5"} /\ "Ga" \notin machine.before) =>
               machine.ret[1].value = 0
        /\ ConstGateOpened => machine.ret[1].value = machine.k

\* the scenario's second reading: the constant -123 read on Aa after Ga, then S_5
C22_Witness ==
    /\ machine.stage = "run"
    /\ machine.test = "gate_const"
    /\ machine.k = -123
    /\ ConstGateOpened
    /\ Returned(BusAa, -123)

(***************************************************************************)
(* C23: a gate(from, Ga, to) circuit passes nothing unless both the gate   *)
(* coil and the source bits were energized in the step immediately before  *)
(* S_5 is driven: if only the from bus was driven in that step, or only    *)
(* Ga, then after the S_5 step inspect_bus(to) = 0, even if the missing    *)
(* signal had been driven in an earlier step.                              *)
(***************************************************************************)
C23_GateNeedsBothInTheStepBefore ==
    (machine.stage = "run" /\ machine.test = "gate" /\ machine.ret # None
        /\ machine.ret[1].bus = BusAa /\ "S_5" \in machine.drive) =>
        /\ "Ga" \notin machine.before => machine.ret[1].value = 0
        /\ "Ab" \notin machine.before => machine.ret[1].value = 0

\* Ga was driven in an earlier step, only the bus (k = -123) in the step before
\* S_5, and Aa read 0
C23_Witness ==
    /\ machine.stage = "run"
    /\ machine.test = "gate"
    /\ machine.k = -123
    /\ "Ga" \in machine.earlier
    /\ machine.before = {"Ab"}
    /\ machine.drive = {"S_5"}
    /\ Returned(BusAa, 0)

(***************************************************************************)
(* C31: nodes shared by name between sub-circuits behave as one node.      *)
(* After every Circuit::step, for every Handle exposed by more than one    *)
(* sub-circuit, the node is high in all of those sub-circuits or in none;  *)
(* a shared node energized from G in one sub-circuit is energized in every *)
(* sub-circuit that exposes it, and propagation continues from it there.   *)
(***************************************************************************)
\* the sub-circuits that expose Handle h
Exposing(h) ==
    {scid \in DOMAIN circuit.subcircuits : h \in DOMAIN circuit.subcircuits[scid].name_to_node}

\* h is high in sub-circuit scid
HighIn(scid, h) == is_high(circuit.subcircuits[scid], h)

\* in sub-circuit scid, every node connected to a high node is high
Propagated(scid) ==
    LET s == circuit.subcircuits[scid]
    IN \A n \in 1..Len(s.node_states) :
           s.node_states[n] => \A other \in Elems(s.connections[n]) : s.node_states[other + 1]

C31_SharedNodesAreOneNode ==
    (last.op = "step" /\ cpc = "run") =>
        \A h \in DOMAIN circuit.nodes :
            /\ \A a, b \in Exposing(h) : HighIn(a, h) <=> HighIn(b, h)
            /\ \A a \in Exposing(h) : Propagated(a)

\* basic_circuit: after the step, shared is high in the two sub-circuits exposing it
C31_Witness ==
    /\ last.op = "step"
    /\ cpc = "run"
    /\ Hshared \in DOMAIN circuit.nodes
    /\ Exposing(Hshared) = {"A", "B"}
    /\ HighIn("A", Hshared)
    /\ HighIn("B", Hshared)

(***************************************************************************)
(* C32: every Circuit::step performs both phases in every sub-circuit.     *)
(* Propagation starts with all sub-circuit nodes low, and the step ends by *)
(* replacing switch_positions with next_switch_positions and rebuilding    *)
(* connections; so a coil energized in one Circuit::step has its switches  *)
(* active during the next Circuit::step, and a node that is no longer      *)
(* reachable reads low.                                                    *)
(***************************************************************************)
\* a step of the Circuit that runs start_step in every sub-circuit before the
\* propagation and end_step in every sub-circuit after it
TwoPhaseStep(c) ==
    LET started == [c EXCEPT !.subcircuits =
                        [s \in DOMAIN c.subcircuits |-> start_step(c.subcircuits[s])]]
        r == step(started)
    IN [r.c EXCEPT !.subcircuits =
           [s \in DOMAIN r.c.subcircuits |-> end_step(r.c.subcircuits[s])]]

C32_StepIsTwoPhase ==
    (last'.op = "step" /\ cpc' = "run") => circuit' = TwoPhaseStep(circuit)

C32_StepRunsBothPhases == [][C32_StepIsTwoPhase]_vars

(***************************************************************************)
(* C33: a step is deterministic in its inputs.  For a fixed pre-step state *)
(* and a fixed set of driven nodes, the post-step node states, switch      *)
(* positions and connection edge set are the same for every order in which *)
(* worklist entries are popped, coils are processed and set calls were     *)
(* made, and are unchanged by setting the same Handle more than once.      *)
(***************************************************************************)
\* the driver sets at most this many names before a step
MaxDriven == 2

\* the sequences of set calls: any order, repeats allowed
SetCalls(names) == UNION {[1..k -> names] : k \in 0..MaxDriven}

\* the orders in which the coils at a node can be processed
CoilOrders(n) == {p \in [1..n -> 1..n] : \A i, j \in 1..n : p[i] = p[j] => i = j}

\* for switch in &coil.switches { next_switch_positions[*switch] = true }
RECURSIVE MarkSwitches(_, _, _)
MarkSwitches(switches, k, next) ==
    IF k > Len(switches) THEN next
    ELSE MarkSwitches(switches, k + 1, [next EXCEPT ![switches[k] + 1] = TRUE])

\* for coil in &self.coils[node], the coils taken in the order p
RECURSIVE MarkInOrder(_, _, _, _)
MarkInOrder(coils, p, i, next) ==
    IF i > Len(coils) THEN next
    ELSE MarkInOrder(coils, p, i + 1, MarkSwitches(coils[p[i]].switches, 1, next))

\* the while loop of update when any entry of the worklist may be popped next and
\* the coils of a node may be processed in any order: the set of results; of the
\* entries that hold one node, the first stands for all
RECURSIVE UpdateOrders(_, _, _, _)
UpdateOrders(s, worklist, visited, next) ==
    IF worklist = << >>
    THEN {[visited |-> visited, next |-> next]}
    ELSE UNION {
        LET n == worklist[i]
            rest == SubSeq(worklist, 1, i - 1) \o SubSeq(worklist, i + 1, Len(worklist))
        IN IF visited[n + 1]
           THEN UpdateOrders(s, rest, visited, next)
           ELSE LET visited2 == [visited EXCEPT ![n + 1] = TRUE]
                    pushed == SelectSeq(s.connections[n + 1],
                                        LAMBDA other : ~visited2[other + 1])
                IN UNION {UpdateOrders(s, rest \o pushed, visited2,
                                       MarkInOrder(s.coils[n + 1], p, 1, next)) :
                          p \in CoilOrders(Len(s.coils[n + 1]))}
        : i \in {k \in 1..Len(worklist) : \A j \in 1..(k - 1) : worklist[j] # worklist[k]}}

\* the names of calls are updated one after the other, each in any order
RECURSIVE DriveOrders(_, _, _, _)
DriveOrders(s, calls, i, acc) ==
    IF i > Len(calls) THEN acc
    ELSE DriveOrders(s, calls, i + 1,
             UNION {UpdateOrders(s, << s.name_to_node[calls[i]] >>, a.visited, a.next) :
                    a \in acc})

\* the code: update is called for the names of calls one after the other
RECURSIVE Driven(_, _, _)
Driven(s, calls, i) ==
    IF i > Len(calls) THEN s ELSE Driven(update(s, calls[i]).sc, calls, i + 1)

\* what the claim compares after the step: node states, switch positions and the
\* set of edges of connections
Edges(connections) ==
    UNION {{<< n - 1, other >> : other \in Elems(connections[n])} :
           n \in 1..Len(connections)}

PostStep(s, visited, next) ==
    LET e == end_step([s EXCEPT !.node_states = visited, !.next_switch_positions = next])
    IN [node_states |-> e.node_states, switch_positions |-> e.switch_positions,
        edges |-> Edges(e.connections)]

\* the names Circuit::step pops for the set calls: G is pushed last and popped first
Popped(s, calls) ==
    LET stack == Append(calls, HG)
        known == SelectSeq(stack, LAMBDA h : h \in DOMAIN s.name_to_node)
    IN [i \in 1..Len(known) |-> known[Len(known) + 1 - i]]

\* where propagation can end for the set calls p, over every order of popping and
\* of processing coils
StepOrders(s, p) ==
    DriveOrders(s, Popped(s, p), 1,
                {[visited |-> s.node_states, next |-> s.next_switch_positions]})

\* where the propagation of the code ends for the set calls q
StepOf(s, q) ==
    LET d == Driven(s, Popped(s, q), 1)
    IN [visited |-> d.node_states, next |-> d.next_switch_positions]

\* every result a step can have when the names of driven were set: the code's
\* result for every sequence of set calls that names them, and the result of every
\* other order of popping and of processing coils
Results(s, driven) ==
    LET calls == {p \in SetCalls(driven) : Elems(p) = driven}
        ends == {StepOf(s, q) : q \in calls} \cup UNION {StepOrders(s, p) : p \in calls}
    IN {PostStep(s, a.visited, a.next) : a \in ends}

C33_StepIsDeterministic ==
    pc = "started" =>
        \A driven \in SUBSET DOMAIN sc.name_to_node :
            Cardinality(driven) <= MaxDriven => Cardinality(Results(sc, driven)) = 1

\* a step is about to propagate, after an earlier one, in a sub-circuit where the
\* orders differ: a node has two neighbours to push and two coils to process, and
\* two names besides G can be set
C33_Witness ==
    /\ pc = "started"
    /\ nsteps >= 1
    /\ \E n \in 1..Len(sc.connections) :
           /\ Cardinality(Elems(sc.connections[n]) \ {n - 1}) >= 2
           /\ Len(sc.coils[n]) >= 2
    /\ Cardinality(DOMAIN sc.name_to_node \ {HG}) >= 2
    /\ \E driven \in SUBSET DOMAIN sc.name_to_node :
           /\ Cardinality(driven) = MaxDriven
           /\ \E a \in Results(sc, driven) :
                  /\ \A n \in 1..Len(a.node_states) : a.node_states[n]
                  /\ \E i \in 1..Len(a.switch_positions) : a.switch_positions[i]

(***************************************************************************)
(* Circuit::step one loop iteration at a time.  The Circuit is `circuit`;  *)
(* work holds                                                              *)
(*   stage      "none" outside a step, "pop" at the while of step, "call"  *)
(*              at the for over the sub-circuits of a name, "update" at    *)
(*              the while of update, "abort" after a panic                 *)
(*   visited    step's HashSet of names                                    *)
(*   node_name  the name popped, scids and i the sub-circuits listed for   *)
(*              it and the one at hand                                     *)
(*   worklist   update's worklist, ret the names it has collected          *)
(*   processed  history: the names that passed visited.insert in this step *)
(*   expanded   history: the (sub-circuit, node) pairs update has marked   *)
(*              visited in this step                                       *)
(*   skipped    history: a popped name or node was found visited           *)
(*   steps      history: the steps that returned, counted up to MaxSteps   *)
(***************************************************************************)
Hs1 == Handle(<< "s", "1" >>, None, None)
Hs2 == Handle(<< "s", "2" >>, None, None)
Hs3 == Handle(<< "s", "3" >>, None, None)

\* wiring with a switch whose pole is its normally-closed throw (s1), a switch whose
\* pole is its normally-open throw and a pair of edges between G and shared (dummy,
\* ab0), and a cycle G - shared - no - G (s2, s3 with dummy)
BuildKnot ==
    [calls |-> << SwitchCall(Hs1, << Named(Hno), New, Named(Hno) >>),
                  SwitchCall(Hdummy, << Named(HG), Named(HG), Named(Hshared) >>),
                  SwitchCall(Hab0, << Named(Hshared), New, Named(HG) >>),
                  SwitchCall(Hs2, << Named(Hshared), New, Named(Hno) >>),
                  SwitchCall(Hs3, << Named(Hno), New, Named(HG) >>) >>,
     interface |-> << Hshared, Hno >>]

WorkBuilds == {BuildA, BuildB, BuildKnot}
WorkHandles == {Hshared, Hno, HAa0}

\* update_iteration with a slip: a popped node is expanded without the look at visited
update_iteration_unchecked(s, worklist, ret) ==
    LET n == worklist[Len(worklist)]
        rest == SubSeq(worklist, 1, Len(worklist) - 1)
        visited2 == [s.node_states EXCEPT ![n + 1] = TRUE]
        pushed == SelectSeq(s.connections[n + 1], LAMBDA other : ~visited2[other + 1])
    IN [s |-> [s EXCEPT !.node_states = visited2,
                        !.next_switch_positions = MarkCoils(s, n, s.next_switch_positions)],
        worklist |-> rest \o pushed,
        ret |-> IF n \in DOMAIN s.public_nodes THEN ret \o s.public_nodes[n] ELSE ret,
        node |-> n, expanded |-> TRUE]

\* one iteration of the while loop of Subcircuit::update on the sub-circuit s:
\* [s, worklist, ret] after it, and whether the popped node was expanded
update_iteration(s, worklist, ret) ==
    LET n == worklist[Len(worklist)]
        rest == SubSeq(worklist, 1, Len(worklist) - 1)
    IN IF s.node_states[n + 1]
       THEN [s |-> s, worklist |-> rest, ret |-> ret, node |-> n, expanded |-> FALSE]
       ELSE LET visited2 == [s.node_states EXCEPT ![n + 1] = TRUE]
                pushed == SelectSeq(s.connections[n + 1],
                                    LAMBDA other : ~visited2[other + 1])
            IN [s |-> [s EXCEPT !.node_states = visited2,
                                !.next_switch_positions =
                                    MarkCoils(s, n, s.next_switch_positions)],
                worklist |-> rest \o pushed,
                ret |-> IF n \in DOMAIN s.public_nodes
                        THEN ret \o s.public_nodes[n] ELSE ret,
                node |-> n, expanded |-> TRUE]

\* the driver builds the sub-circuits before it drives the Circuit
WorkBuild ==
    /\ work = NoWork
    /\ circuit.set_nodes = << >>
    /\ \E name \in SubcircuitIds, build \in WorkBuilds :
           LET r == build_subcircuit(circuit, name, build)
           IN /\ ~r.panic
              /\ \A h \in DOMAIN r.c.nodes : Len(r.c.nodes[h].subcircuits) <= MaxShare
              /\ circuit' = r.c
    /\ UNCHANGED << subcircuitVars, cpc, last, bcall, conv, busio, machine, work >>

\* the driver calls c.set(&handle) between two steps
WorkSet ==
    /\ work.stage = "none"
    /\ circuit.subcircuits # EmptyMap
    /\ Len(circuit.set_nodes) < MaxSetNodes
    /\ \E handle \in WorkHandles : circuit' = set(circuit, handle).c
    /\ UNCHANGED << subcircuitVars, cpc, last, bcall, conv, busio, machine, work >>

\* step: the public node states are reset, G is pushed, visited is new
BeginStep ==
    /\ work.stage = "none"
    /\ circuit.subcircuits # EmptyMap
    /\ circuit' = [circuit EXCEPT
                      !.nodes = [h \in DOMAIN circuit.nodes |->
                                    [circuit.nodes[h] EXCEPT !.state = FALSE]],
                      !.set_nodes = Append(circuit.set_nodes, HG)]
    /\ work' = [NoWork EXCEPT !.stage = "pop", !.steps = work.steps]
    /\ UNCHANGED << subcircuitVars, cpc, last, bcall, conv, busio, machine >>

\* step: while let Some(node_name) = self.set_nodes.pop()
PopName ==
    /\ work.stage = "pop"
    /\ circuit.set_nodes # << >>
    /\ LET node_name == circuit.set_nodes[Len(circuit.set_nodes)]
           rest == SubSeq(circuit.set_nodes, 1, Len(circuit.set_nodes) - 1)
       IN IF node_name \in work.visited
          THEN /\ circuit' = [circuit EXCEPT !.set_nodes = rest]
               /\ work' = [work EXCEPT !.skipped = @ \cup {"name"}]
          ELSE IF node_name \in DOMAIN circuit.nodes
               THEN /\ circuit' = [circuit EXCEPT !.set_nodes = rest,
                                                  !.nodes[node_name].state = TRUE]
                    /\ work' = [work EXCEPT !.stage = "call",
                                            !.visited = @ \cup {node_name},
                                            !.node_name = node_name,
                                            !.scids = circuit.nodes[node_name].subcircuits,
                                            !.i = 1,
                                            !.processed = Append(@, node_name)]
               ELSE /\ circuit' = [circuit EXCEPT !.set_nodes = rest]
                    /\ work' = [work EXCEPT !.visited = @ \cup {node_name},
                                            !.processed = Append(@, node_name)]
    /\ UNCHANGED << subcircuitVars, cpc, last, bcall, conv, busio, machine >>

\* step: for scid in &public_node.subcircuits; update starts with
\* worklist = vec![self.name_to_node[node_name]], and the index panics on a name the
\* sub-circuit lacks
CallUpdate ==
    /\ work.stage = "call"
    /\ IF work.i > Len(work.scids)
       THEN work' = [work EXCEPT !.stage = "pop"]
       ELSE LET s == circuit.subcircuits[work.scids[work.i]]
            IN IF work.node_name \notin DOMAIN s.name_to_node
               THEN work' = [work EXCEPT !.stage = "abort"]
               ELSE work' = [work EXCEPT !.stage = "update",
                                         !.worklist = << s.name_to_node[work.node_name] >>,
                                         !.ret = << >>]
    /\ UNCHANGED << subcircuitVars, circuitVars, bcall, conv, busio, machine >>

\* update: while let Some(node) = worklist.pop()
PopNode ==
    /\ work.stage = "update"
    /\ work.worklist # << >>
    /\ LET scid == work.scids[work.i]
           r == update_iteration(circuit.subcircuits[scid], work.worklist, work.ret)
       IN /\ circuit' = [circuit EXCEPT !.subcircuits[scid] = r.s]
          /\ work' = [work EXCEPT !.worklist = r.worklist,
                                  !.ret = r.ret,
                                  !.expanded = IF r.expanded
                                               THEN Append(@, << scid, r.node >>) ELSE @,
                                  !.skipped = IF r.expanded THEN @ ELSE @ \cup {"node"}]
    /\ UNCHANGED << subcircuitVars, cpc, last, bcall, conv, busio, machine >>

\* update returns ret; step: self.set_nodes.extend(nodes)
ReturnUpdate ==
    /\ work.stage = "update"
    /\ work.worklist = << >>
    /\ circuit' = [circuit EXCEPT !.set_nodes = @ \o work.ret]
    /\ work' = [work EXCEPT !.stage = "call", !.i = @ + 1, !.ret = << >>]
    /\ UNCHANGED << subcircuitVars, cpc, last, bcall, conv, busio, machine >>

\* step: set_nodes is empty and the call returns
EndOfStep ==
    /\ work.stage = "pop"
    /\ circuit.set_nodes = << >>
    /\ work' = [work EXCEPT !.stage = "none",
                            !.steps = IF @ < MaxSteps THEN @ + 1 ELSE @]
    /\ UNCHANGED << subcircuitVars, circuitVars, bcall, conv, busio, machine >>

\* the steps of a call of Circuit::step that is under way
StepOn == PopName \/ CallUpdate \/ PopNode \/ ReturnUpdate \/ EndOfStep

NextWork ==
    \/ WorkBuild
    \/ WorkSet
    \/ BeginStep
    \/ PopName
    \/ CallUpdate
    \/ PopNode
    \/ ReturnUpdate
    \/ EndOfStep

\* a call that was made runs on: the program is sequential
SpecWork == Init /\ [][NextWork]_vars /\ WF_vars(StepOn)

(***************************************************************************)
(* C34: step terminates on every finite finalized machine, including       *)
(* wiring with cycles, switches whose pole coincides with one of their     *)
(* throws, duplicate edges, and nodes shared between sub-circuits that     *)
(* re-announce each other: within one step each node is expanded at most   *)
(* once and each shared Handle is processed at most once.                  *)
(***************************************************************************)
\* no value occurs twice in the sequence
NoRepeat(v) == \A i, j \in 1..Len(v) : v[i] = v[j] => i = j

\* a call of step is under way; it has ended, by returning or by the panic of
\* update's index
StepUnderWay == work.stage \in {"pop", "call", "update"}
StepEnded == work.stage \in {"none", "abort"}

OncePerStep == NoRepeat(work.processed) /\ NoRepeat(work.expanded)

C34_StepTerminates == []OncePerStep /\ (StepUnderWay ~> StepEnded)

\* a step has returned on a Circuit where the knot is wired in two sub-circuits that
\* both expose shared and no: G, shared and no were expanded in both, and a name and a node
\* were popped that had been visited before
C34_Witness ==
    /\ work.stage = "none"
    /\ work.steps >= 1
    /\ DOMAIN circuit.subcircuits = {"A", "B"}
    /\ \A name \in {"A", "B"} :
           /\ Len(circuit.subcircuits[name].switches) = 5
           /\ \A h \in {HG, Hshared, Hno} :
                  << name, circuit.subcircuits[name].name_to_node[h] >>
                      \in Elems(work.expanded)
    /\ Len(circuit.nodes[Hshared].subcircuits) = 2
    /\ {HG, Hshared, Hno} \subseteq Elems(work.processed)
    /\ work.skipped = {"name", "node"}

(***************************************************************************)
(* C35: provided every Wire(n) given to the builder carries a NodeId the   *)
(* builder previously returned, every switch terminal and coil terminal    *)
(* recorded by add_switch and add_coil is below the node count N at        *)
(* finalize, so finalize and every later step index the per-node tables    *)
(* (connections, node states, coils) only within 0..N-1; Wire(n) itself    *)
(* allocates nothing and changes no builder state.                         *)
(***************************************************************************)
\* the terminals add_switch and add_coil have recorded in the builder b
Terminals(b) ==
    UNION {{b.switches[i].pole, b.switches[i].no, b.switches[i].nc} :
           i \in 1..Len(b.switches)}
        \cup {b.coils[i].pos : i \in 1..Len(b.coils)}

\* the per-node tables of s have N entries each, and every NodeId that finalize stored
\* and that a step indexes them with is in 0..N-1
TablesInRange(s, N) ==
    /\ Len(s.connections) = N /\ Len(s.node_states) = N /\ Len(s.coils) = N
    /\ \A i \in 1..Len(s.switches) : {s.switches[i].pole, s.switches[i].no, s.switches[i].nc} \subseteq 0..(N - 1)
    /\ \A n \in 1..N : Elems(s.connections[n]) \subseteq 0..(N - 1)
    /\ \A h \in DOMAIN s.name_to_node : s.name_to_node[h] \in 0..(N - 1)
    /\ DOMAIN s.public_nodes \subseteq 0..(N - 1)

C35_WiresStayInRange ==
    /\ pc = "building" =>
           /\ Terminals(cb) \subseteq 0..(cb.num_nodes - 1)
           /\ ~FinalizePanics(cb)
           /\ \A w \in Wires(cb) : node(cb, w) = Ok(cb, w.node)
    /\ (bcall.op = "node" /\ ~bcall.panic /\ bcall.specs[1].kind = "Wire") =>
           /\ cb = bcall.before
           /\ bcall.ret = bcall.specs[1].node
    /\ bcall.op = "finalize" =>
           /\ pc = "idle"
           /\ \A n \in 0..MaxSteps + 1 :
                  /\ TablesInRange(Steps(sc, n), cb.num_nodes)
                  /\ HG \in DOMAIN sc.name_to_node =>
                         ~EndStepPanics(update(start_step(Steps(sc, n)), HG).sc)

\* a builder was finalized in which a switch has its pole at the terminal of the coil
\* Aa and a throw at the node named no: the pole was given as Wire(n), the name Aa not
\* being among those the driver passes as names; a step from G throws the switch
C35_Witness ==
    /\ bcall.op = "finalize"
    /\ pc = "idle"
    /\ HAa \in DOMAIN cb.node_aliases
    /\ HG \in DOMAIN sc.name_to_node
    /\ \E i \in 1..Len(cb.switches) :
           /\ cb.switches[i].pole = cb.node_aliases[HAa]
           /\ is_active(Steps(sc, 1), i - 1)

=============================================================================
